---- MODULE Spec2Model ----
(***************************************************************************)
(* Shift-scheduling calendar (hadisa/custom-calendar).                     *)
(*                                                                         *)
(* The model follows components/mainApp.tsx (the self-contained App with   *)
(* its in-memory store and ShiftForm), components/MainCalendar.tsx (the    *)
(* view resolver) and the Event component (Day-view geometry).             *)
(*                                                                         *)
(* Conventions.                                                            *)
(*  - A JavaScript Date is its local wall-clock time in whole minutes      *)
(*    since 1970-01-01T00:00 (the form and the seeds only produce whole    *)
(*    minutes; the 23:59:59.999 of date-fns' endOf... is minute 23:59).    *)
(*    Local time has no daylight-saving jumps in the model.                *)
(*  - Months are 0-based wherever the code uses the Date API (getMonth,    *)
(*    new Date(y, m, d)), 1-based inside ISO strings.                      *)
(*  - A string is the sequence of its characters.                          *)
(***************************************************************************)
EXTENDS Integers, Sequences, FiniteSets, TLC

VARIABLES
    currentWeekStart,   \* App state: the anchor date
    currentView,        \* App state: the view mode
    rendered,           \* what MainCalendar computed on the last render
    shiftGroups,        \* App state: sequence of ShiftGroup records
    groupObjects,       \* the ShiftGroup objects behind shiftGroups, by identity
    events,             \* App state: sequence of ShiftEvent records
    isFormOpen,         \* App state: the ShiftForm modal is shown
    defaultResourceIdForForm, \* App state handed to ShiftForm
    groupNameForOpenShift,    \* App state handed to ShiftForm
    errorMessage,       \* ShiftForm state: the inline message
    db,                 \* Firestore App state: the Firestore handle or null
    userId,             \* Firestore App state: the signed-in user or null
    isLoading,          \* Firestore App state: initialisation not finished
    error,              \* Firestore App state: the message of the error page
    firestore,          \* the user's Firestore collections
    pendingWrites,      \* Firestore writes awaited by a handler
    players,            \* Ludo state: hasWon of each player, by colour
    piecesPositions,    \* Ludo state: the four pieces of each colour
    currentPlayerIndex, \* Ludo state: 0-based index into PLAYER_COLORS
    diceValue,          \* Ludo state: the face shown
    gameStarted,        \* Ludo state
    isRolling,          \* Ludo state: the roll animation runs
    movablePieces,      \* Ludo state: ids of the pieces that may be moved
    rollInterval,       \* the interval of handleRollDice in flight, if any
    timers,             \* the setTimeout callbacks not yet run
    rollCount,          \* history: rolls accepted so far
    settledRoll,        \* history: the number of the last roll that settled
    playerChanges,      \* history: calls of nextTurn caused by each roll
    rollResolved        \* history: a piece moved or the turn passed since
                        \* the last roll settled

vars == <<currentWeekStart, currentView, rendered, shiftGroups, groupObjects,
          events, isFormOpen, defaultResourceIdForForm, groupNameForOpenShift,
          errorMessage, db, userId, isLoading, error, firestore, pendingWrites,
          players, piecesPositions, currentPlayerIndex, diceValue, gameStarted,
          isRolling, movablePieces, rollInterval, timers, rollCount,
          settledRoll, playerChanges, rollResolved>>

viewVars == <<currentWeekStart, currentView, rendered>>
storeVars == <<shiftGroups, events>>
formVars == <<isFormOpen, defaultResourceIdForForm, groupNameForOpenShift,
              errorMessage>>
firestoreVars == <<db, userId, isLoading, error, firestore, pendingWrites>>
ludoVars == <<players, piecesPositions, currentPlayerIndex, diceValue,
              gameStarted, isRolling, movablePieces, rollInterval, timers,
              rollCount, settledRoll, playerChanges, rollResolved>>
calendarVars == <<currentWeekStart, currentView, rendered, shiftGroups,
                  groupObjects, events, isFormOpen, defaultResourceIdForForm,
                  groupNameForOpenShift, errorMessage, db, userId, isLoading,
                  error, firestore, pendingWrites>>

----------------------------------------------------------------------------
(* Bounds *)

\* Anchor dates range over the years 2025 - YearSpan .. 2025 + YearSpan.
YearSpan == 1

\* The date picker opens on the month of the selected date; one pick moves the
\* anchor by at most this many days.
PickRange == 3

----------------------------------------------------------------------------
(* JavaScript Date arithmetic (proleptic Gregorian calendar, local time) *)

MinutesPerDay == 1440

Undefined == "undefined"

\* JavaScript's null.
Null == "null"

\* An Invalid Date: getTime() is NaN.
NaN == -1

isNaN(t) == t = NaN

IsLeap(y) == (y % 4 = 0 /\ y % 100 # 0) \/ y % 400 = 0

\* Number of days of month m0 (0-based) of year y.
DaysInMonth(y, m0) ==
    IF m0 = 1 THEN (IF IsLeap(y) THEN 29 ELSE 28)
    ELSE IF m0 \in {3, 5, 8, 10} THEN 30 ELSE 31

\* Day number (days since 1970-01-01) of the civil date y-(m0+1)-d, d in range.
DaysFromCivil(y, m0, d) ==
    LET m   == m0 + 1
        yy  == IF m <= 2 THEN y - 1 ELSE y
        era == yy \div 400
        yoe == yy - era * 400
        mp  == (m + 9) % 12
        doy == (153 * mp + 2) \div 5 + d - 1
        doe == yoe * 365 + yoe \div 4 - yoe \div 100 + doy
    IN  era * 146097 + doe - 719468

\* The civil date [y, m0, d] of a day number.
CivilFromDays(z) ==
    LET zz  == z + 719468
        era == zz \div 146097
        doe == zz - era * 146097
        yoe == (doe - doe \div 1460 + doe \div 36524 - doe \div 146096) \div 365
        doy == doe - (365 * yoe + yoe \div 4 - yoe \div 100)
        mp  == (5 * doy + 2) \div 153
        d   == doy - (153 * mp + 2) \div 5 + 1
        m   == IF mp < 10 THEN mp + 3 ELSE mp - 9
        y   == yoe + era * 400 + (IF m <= 2 THEN 1 ELSE 0)
    IN  [y |-> y, m0 |-> m - 1, d |-> d]

DayOf(t) == t \div MinutesPerDay

getFullYear(t) == CivilFromDays(DayOf(t)).y
getMonth(t) == CivilFromDays(DayOf(t)).m0
getDate(t) == CivilFromDays(DayOf(t)).d
getHours(t) == (t % MinutesPerDay) \div 60
getMinutes(t) == t % 60
\* 0 for Sunday .. 6 for Saturday; 1970-01-01 was a Thursday.
getDay(t) == (DayOf(t) + 4) % 7

\* new Date(y, m0, d, h, mi): month and day overflow are normalised
\* (month 12 is January of the next year, day 0 the last day of the
\* previous month).
NewDate(y, m0, d, h, mi) ==
    (DaysFromCivil(y + m0 \div 12, m0 % 12, 1) + d - 1) * MinutesPerDay
        + (h * 60) + mi

\* date.setHours(0, 0, 0, 0)
StartOfDay(t) == DayOf(t) * MinutesPerDay

\* date.setHours(23, 59, 59, 999)
EndOfDay(t) == DayOf(t) * MinutesPerDay + (MinutesPerDay - 1)

----------------------------------------------------------------------------
(* date-fns *)

addDays(t, n) == t + n * MinutesPerDay

\* addMonths keeps the day of month, clamped to the length of the target month.
addMonths(t, n) ==
    LET y   == getFullYear(t)
        m   == getMonth(t) + n
        ty  == y + m \div 12
        tm  == m % 12
        dim == DaysInMonth(ty, tm)
        d   == IF getDate(t) > dim THEN dim ELSE getDate(t)
    IN  NewDate(ty, tm, d, getHours(t), getMinutes(t))

startOfWeek(t, weekStartsOn) ==
    LET day  == getDay(t)
        diff == (IF day < weekStartsOn THEN 7 ELSE 0) + day - weekStartsOn
    IN  StartOfDay(addDays(t, 0 - diff))

endOfWeek(t, weekStartsOn) ==
    LET day  == getDay(t)
        diff == (IF day < weekStartsOn THEN -7 ELSE 0) + 6 - (day - weekStartsOn)
    IN  EndOfDay(addDays(t, diff))

startOfMonth(t) == NewDate(getFullYear(t), getMonth(t), 1, 0, 0)

endOfMonth(t) == EndOfDay(NewDate(getFullYear(t), getMonth(t) + 1, 0, 0, 0))

startOfQuarter(t) ==
    LET currentMonth == getMonth(t)
        month        == currentMonth - (currentMonth % 3)
    IN  NewDate(getFullYear(t), month, 1, 0, 0)

endOfQuarter(t) ==
    LET currentMonth == getMonth(t)
        month        == currentMonth - (currentMonth % 3) + 3
    IN  EndOfDay(NewDate(getFullYear(t), month, 0, 0, 0))

isSameDay(a, b) == StartOfDay(a) = StartOfDay(b)

----------------------------------------------------------------------------
(* Strings *)

\* String literals, as character sequences.
Str_OpenShiftFor ==
    <<"O", "p", "e", "n", " ", "S", "h", "i", "f", "t", " ", "f", "o",
    "r", " ">>

Str_ColonSpace ==
    <<":", " ">>

Str_OperationsTeam ==
    <<"O", "p", "e", "r", "a", "t", "i", "o", "n", "s", " ", "T", "e",
    "a", "m">>

Str_SalesDepartment ==
    <<"S", "a", "l", "e", "s", " ", "D", "e", "p", "a", "r", "t", "m",
    "e", "n", "t">>

Str_CustomerSupport ==
    <<"C", "u", "s", "t", "o", "m", "e", "r", " ", "S", "u", "p", "p",
    "o", "r", "t">>

Str_MorningShift ==
    <<"M", "o", "r", "n", "i", "n", "g", " ", "S", "h", "i", "f", "t">>

Str_AfternoonShift ==
    <<"A", "f", "t", "e", "r", "n", "o", "o", "n", " ", "S", "h", "i",
    "f", "t">>

Str_TeamMeeting ==
    <<"T", "e", "a", "m", " ", "M", "e", "e", "t", "i", "n", "g">>

Str_ClientCall ==
    <<"C", "l", "i", "e", "n", "t", " ", "C", "a", "l", "l">>

Str_SupportDesk ==
    <<"S", "u", "p", "p", "o", "r", "t", " ", "D", "e", "s", "k">>

Str_Cover ==
    <<"C", "o", "v", "e", "r">>

Str_OpenShifts ==
    <<"O", "p", "e", "n", " ", "S", "h", "i", "f", "t", "s">>

\* String.prototype.trim: drop leading and trailing whitespace.
RECURSIVE TrimStart(_)
TrimStart(s) ==
    IF s # <<>> /\ Head(s) = " " THEN TrimStart(Tail(s)) ELSE s

RECURSIVE TrimEnd(_)
TrimEnd(s) ==
    IF s # <<>> /\ s[Len(s)] = " " THEN TrimEnd(SubSeq(s, 1, Len(s) - 1)) ELSE s

trim(s) == TrimEnd(TrimStart(s))

\* String.prototype.startsWith
startsWith(s, prefix) ==
    Len(prefix) <= Len(s) /\ SubSeq(s, 1, Len(prefix)) = prefix

----------------------------------------------------------------------------
(* View resolver: MainCalendar *)

ViewModes == {"week", "day", "year", "quarter", "month", "month-detailed",
              "quarter-detailed"}

\* Mutant of getDaysInWeek: the week starts on Monday.
getDaysInWeek_MondayStart(startDate) ==
    LET startOfWeekDate == startOfWeek(startDate, 1)
    IN  [i \in 1..7 |-> addDays(startOfWeekDate, i - 1)]

getDaysInWeek(startDate) ==
    LET startOfWeekDate == startOfWeek(startDate, 0)
    IN  [i \in 1..7 |-> addDays(startOfWeekDate, i - 1)]

\* let currentDay = startDay;
\* while (currentDay <= endDay) { push(currentDay); currentDay = addDays(currentDay, 1) }
\* The k-th iteration pushes startDay + k days; the loop runs while that
\* value is <= endDay, that is for k = 0 .. (endDay - startDay) div one day.
DaysWhile(startDay, endDay) ==
    IF startDay <= endDay
    THEN [i \in 1..((endDay - startDay) \div MinutesPerDay + 1) |->
              addDays(startDay, i - 1)]
    ELSE <<>>

\* Mutant: hour 0 and hour 12 are not shown as 12.
HourLabel_NoTwelve(i) ==
    ToString(i % 12) \o (IF i < 12 THEN "am" ELSE "pm")

\* format(new Date(2000, 0, 1, i), 'ha').toLowerCase()
HourLabel(i) ==
    ToString(IF i % 12 = 0 THEN 12 ELSE i % 12) \o (IF i < 12 THEN "am" ELSE "pm")

\* Mutant of MonthGrid: the last week is not padded to its Saturday.
MonthGrid_NoEndPadding(anchor) ==
    DaysWhile(startOfWeek(startOfMonth(anchor), 0), endOfMonth(anchor))

\* The day grid of a month: used for columnsToDisplay and allDaysInMonthView.
MonthGrid(anchor) ==
    LET startOfCurrentMonth == startOfMonth(anchor)
        endOfCurrentMonth   == endOfMonth(anchor)
    IN  CHOOSE cols \in
            { DaysWhile(startDay, endDay)
              : startDay \in {startOfWeek(startOfCurrentMonth, 0)},
                endDay \in {endOfWeek(endOfCurrentMonth, 0)} } : TRUE

\* Mutant of QuarterGrid: the grid of the anchor's month only.
QuarterGrid_MonthOnly(anchor) ==
    DaysWhile(startOfWeek(startOfMonth(anchor), 0),
              endOfWeek(endOfMonth(anchor), 0))

QuarterGrid(anchor) ==
    LET startOfCurrentQuarter == startOfQuarter(anchor)
        endOfCurrentQuarter   == endOfQuarter(anchor)
    IN  CHOOSE cols \in
            { DaysWhile(startDay, endDay)
              : startDay \in {startOfWeek(startOfCurrentQuarter, 0)},
                endDay \in {endOfWeek(endOfCurrentQuarter, 0)} } : TRUE

\* What one render of MainCalendar computes from (currentView, currentWeekStart).
\* A field the chosen branch does not compute is the empty sequence.
MainCalendar(view, anchor) ==
    [ columnsToDisplay |->
        IF view = "week" THEN getDaysInWeek(anchor)
        ELSE IF view = "day" THEN <<anchor>>
        ELSE IF view \in {"month", "month-detailed"} THEN MonthGrid(anchor)
        ELSE IF view = "quarter-detailed" THEN QuarterGrid(anchor)
        ELSE <<>>,
      headerColumns |->
        IF view = "day" THEN [i \in 1..24 |-> HourLabel(i - 1)] ELSE <<>>,
      months |->
        IF view = "year"
        THEN [i \in 1..12 |-> NewDate(getFullYear(anchor), i - 1, 1, 0, 0)]
        ELSE <<>>,
      monthsInQuarter |->
        IF view = "quarter"
        THEN [i \in 1..3 |-> addMonths(startOfQuarter(anchor), i - 1)]
        ELSE <<>>,
      allDaysInMonthView |->
        IF view = "month" THEN MonthGrid(anchor) ELSE <<>> ]

\* Mutant: every date view takes its buckets from columnsToDisplay.
Buckets_ColumnsOnly(r, view) ==
    IF view = "day" THEN r.headerColumns ELSE r.columnsToDisplay

\* The buckets the chosen layout shows: hour headers in Day view, month tiles
\* in the Year and Quarter summaries, the day cells of the Month summary, and
\* the day columns otherwise.
Buckets(r, view) ==
    IF view = "day" THEN r.headerColumns
    ELSE IF view = "year" THEN r.months
    ELSE IF view = "quarter" THEN r.monthsInQuarter
    ELSE IF view = "month" THEN r.allDaysInMonthView
    ELSE r.columnsToDisplay

----------------------------------------------------------------------------
(* Event component: Day-view geometry *)

startMinutes(event) == getHours(event.start) * 60 + getMinutes(event.start)

endMinutes(event) == getHours(event.end) * 60 + getMinutes(event.end)

durationMinutes(event) == endMinutes(event) - startMinutes(event)

\* (startMinutes / (24 * 60)) * 100, an exact rational number of percent.
leftPosition(event) == [num |-> startMinutes(event) * 100, den |-> 24 * 60]

\* Mutant: the width is taken from the end's offset, not from the duration.
eventWidth_FromEndMinutes(event) ==
    [num |-> endMinutes(event) * 100, den |-> 24 * 60]

\* (durationMinutes / (24 * 60)) * 100
eventWidth(event) == [num |-> durationMinutes(event) * 100, den |-> 24 * 60]

DAY_VIEW_HOUR_WIDTH_PX == 50
DAY_VIEW_TOTAL_WIDTH_PX == 24 * DAY_VIEW_HOUR_WIDTH_PX

\* minWidth: '40px'
EventMinWidthPx == 40

\* Mutant: the box is styled without a minimum width.
Event_NoMinWidth(event, view) ==
    IF view = "day"
    THEN [id |-> event.id, start |-> event.start, end |-> event.end,
          left |-> leftPosition(event), width |-> eventWidth(event),
          minWidth |-> 0]
    ELSE [id |-> event.id, start |-> event.start, end |-> event.end]

\* The rendering directive of one event: a positioned box in Day view (its
\* style's left, width and minWidth), a stacked block otherwise.
Event(event, view) ==
    IF view = "day"
    THEN [id |-> event.id, start |-> event.start, end |-> event.end,
          left |-> leftPosition(event), width |-> eventWidth(event),
          minWidth |-> EventMinWidthPx]
    ELSE [id |-> event.id, start |-> event.start, end |-> event.end]

\* The least width in px the styled box can take in the Day cell: a negative
\* width is no valid declaration and leaves the width to the content, and
\* the result is never below minWidth.
MinUsedWidthPx(box) ==
    LET declared == IF box.width.num < 0 THEN 0
                    ELSE (box.width.num * DAY_VIEW_TOTAL_WIDTH_PX)
                             \div (100 * box.width.den)
    IN  IF declared < box.minWidth THEN box.minWidth ELSE declared

----------------------------------------------------------------------------
(* App: seeded state *)

\* const today = new Date(2025, 4, 26, 0, 0, 0)
today == NewDate(2025, 4, 26, 0, 0)

openShiftResourceId == "open-shift-resource-id"

InitialShiftGroups ==
    << [id |-> "group-ops", name |-> Str_OperationsTeam, isExpanded |-> TRUE],
       [id |-> "group-sales", name |-> Str_SalesDepartment, isExpanded |-> TRUE],
       [id |-> "group-support", name |-> Str_CustomerSupport, isExpanded |-> TRUE] >>

\* The objects of the initial array: refs[g] is the identity of the object at
\* index g, objs maps an identity to the object's fields.  objs holds the
\* objects of the current array and those the last update replaced.
InitialGroupObjects ==
    [refs |-> [g \in DOMAIN InitialShiftGroups |-> g],
     objs |-> [r \in DOMAIN InitialShiftGroups |-> InitialShiftGroups[r]]]

resources ==
    << [id |-> "res-1", groupId |-> "group-ops"],
       [id |-> "res-2", groupId |-> "group-ops"],
       [id |-> "res-3", groupId |-> "group-sales"],
       [id |-> "res-4", groupId |-> "group-sales"],
       [id |-> "res-5", groupId |-> "group-support"],
       [id |-> openShiftResourceId, groupId |-> "N/A"] >>

\* new Date(today.getFullYear(), today.getMonth(), today.getDate() + off, h, 0, 0)
SeedTime(off, h) ==
    NewDate(getFullYear(today), getMonth(today), getDate(today) + off, h, 0)

InitialEvents ==
    << [id |-> "evt-1", resourceId |-> "res-1", title |-> Str_MorningShift,
        start |-> SeedTime(0, 9), end |-> SeedTime(0, 13)],
       [id |-> "evt-2", resourceId |-> "res-2", title |-> Str_AfternoonShift,
        start |-> SeedTime(0, 13), end |-> SeedTime(0, 17)],
       [id |-> "evt-3", resourceId |-> "res-1", title |-> Str_TeamMeeting,
        start |-> SeedTime(1, 9), end |-> SeedTime(1, 11)],
       [id |-> "evt-4", resourceId |-> "res-3", title |-> Str_ClientCall,
        start |-> SeedTime(2, 10), end |-> SeedTime(2, 12)],
       [id |-> "evt-5", resourceId |-> "res-5", title |-> Str_SupportDesk,
        start |-> SeedTime(-1, 10), end |-> SeedTime(-1, 18)],
       [id |-> "open-evt-1", resourceId |-> openShiftResourceId,
        title |-> Str_OpenShiftFor \o Str_OperationsTeam,
        start |-> SeedTime(0, 7), end |-> SeedTime(0, 11)],
       [id |-> "open-evt-2", resourceId |-> openShiftResourceId,
        title |-> Str_OpenShiftFor \o Str_SalesDepartment,
        start |-> SeedTime(1, 16), end |-> SeedTime(1, 20)] >>

\* The documents populateInitialData writes to an empty store.
SeededFirestore ==
    [shiftGroups |-> InitialShiftGroups, events |-> SubSeq(InitialEvents, 1, 5)]

\* The Firestore App's own state at mount: no handle, no user, loading, no
\* error; the store holds the seeded documents and no write is under way.
InitFirestoreState ==
    /\ db = Null
    /\ userId = Null
    /\ isLoading = TRUE
    /\ error = Null
    /\ firestore = SeededFirestore
    /\ pendingWrites = {}

\* The same state where the Firestore App is not the variant that runs: its
\* useState values, and a store that was never populated.
NoFirestoreApp ==
    /\ db = Null
    /\ userId = Null
    /\ isLoading = TRUE
    /\ error = Null
    /\ firestore = [shiftGroups |-> <<>>, events |-> <<>>]
    /\ pendingWrites = {}

----------------------------------------------------------------------------
(* The Ludo game (App.tsx): board data and the state of a fresh game *)

\* At most this many rolls are accepted.
MaxRolls == 3

PLAYER_COLORS == <<"red", "green", "yellow", "blue">>

\* Positions are <<row, col>>.
MAIN_PATH_COORDS ==
    << <<6, 1>>, <<6, 2>>, <<6, 3>>, <<6, 4>>, <<6, 5>>,
       <<5, 6>>, <<4, 6>>, <<3, 6>>, <<2, 6>>, <<1, 6>>, <<0, 6>>,
       <<0, 7>>, <<0, 8>>,
       <<1, 8>>, <<2, 8>>, <<3, 8>>, <<4, 8>>, <<5, 8>>,
       <<6, 9>>, <<6, 10>>, <<6, 11>>, <<6, 12>>, <<6, 13>>, <<6, 14>>,
       <<7, 14>>, <<8, 14>>,
       <<8, 13>>, <<8, 12>>, <<8, 11>>, <<8, 10>>, <<8, 9>>,
       <<9, 8>>, <<10, 8>>, <<11, 8>>, <<12, 8>>, <<13, 8>>, <<14, 8>>,
       <<14, 7>>, <<14, 6>>,
       <<13, 6>>, <<12, 6>>, <<11, 6>>, <<10, 6>>, <<9, 6>>,
       <<8, 5>>, <<8, 4>>, <<8, 3>>, <<8, 2>>, <<8, 1>>, <<8, 0>>,
       <<7, 0>> >>

HOME_PATH_COORDS ==
    [red    |-> << <<7, 1>>, <<7, 2>>, <<7, 3>>, <<7, 4>>, <<7, 5>>, <<7, 6>> >>,
     green  |-> << <<1, 7>>, <<2, 7>>, <<3, 7>>, <<4, 7>>, <<5, 7>>, <<6, 7>> >>,
     yellow |-> << <<7, 13>>, <<7, 12>>, <<7, 11>>, <<7, 10>>, <<7, 9>>,
                   <<7, 8>> >>,
     blue   |-> << <<13, 7>>, <<12, 7>>, <<11, 7>>, <<10, 7>>, <<9, 7>>,
                   <<8, 7>> >>]

ENTRY_POINTS ==
    [red |-> <<6, 1>>, green |-> <<1, 8>>, yellow |-> <<8, 13>>,
     blue |-> <<13, 6>>]

HOME_ENTRY_POINTS ==
    [red |-> <<7, 1>>, green |-> <<1, 7>>, yellow |-> <<7, 13>>,
     blue |-> <<13, 7>>]

\* The piece initializeGame makes: in the start area.  The position field is
\* left out: it is the cell the other three fields name.
StartPiece == [pathIndex |-> -1, inHomePath |-> FALSE, isHome |-> FALSE]

\* The state initializeGame sets on mount, with no roll made yet.
InitLudoState ==
    /\ players = [c \in {"red", "green", "yellow", "blue"} |-> FALSE]
    /\ piecesPositions =
          [c \in {"red", "green", "yellow", "blue"} |-> [i \in 0..3 |-> StartPiece]]
    /\ currentPlayerIndex = 0
    /\ diceValue = 1
    /\ gameStarted = TRUE
    /\ isRolling = FALSE
    /\ movablePieces = <<>>
    /\ rollInterval = <<>>
    /\ timers = {}
    /\ rollCount = 0
    /\ settledRoll = 0
    /\ playerChanges = [r \in 1..MaxRolls |-> 0]
    /\ rollResolved = TRUE

\* The useState values of the game, where it is not mounted: no players, no
\* pieces, game not started.
NoLudoGame ==
    /\ players = <<>>
    /\ piecesPositions = <<>>
    /\ currentPlayerIndex = 0
    /\ diceValue = 1
    /\ gameStarted = FALSE
    /\ isRolling = FALSE
    /\ movablePieces = <<>>
    /\ rollInterval = <<>>
    /\ timers = {}
    /\ rollCount = 0
    /\ settledRoll = 0
    /\ playerChanges = [r \in 1..MaxRolls |-> 0]
    /\ rollResolved = TRUE

----------------------------------------------------------------------------
(* Rendering: MainCalendar with its resource rows *)

\* The views with a summary layout of their own; every other value of
\* currentView falls through to the grid of group and resource rows.
SummaryViews == {"year", "quarter", "month"}

\* The views whose layout is the grid of group and resource rows.
RowViews == {"week", "day", "month-detailed", "quarter-detailed"}

\* Mutant: a cell lists the newest event first.
ResourceRow_NewestFirst(resource, daysInView, view, evts) ==
    LET InRow(event) ==
            /\ event.resourceId = resource.id
            /\ \E k \in 1..Len(daysInView) : isSameDay(daysInView[k], event.start)
    IN  CHOOSE row \in
            { [k \in 1..Len(daysInView) |->
                  LET OnDay(event) == isSameDay(event.start, daysInView[k])
                      cell == SelectSeq(resourceEvents, OnDay)
                  IN  [j \in 1..Len(cell) |->
                          Event(cell[Len(cell) + 1 - j], view)]]
              : resourceEvents \in {SelectSeq(evts, InRow)} } : TRUE

\* Mutant: an event is shown on every day it overlaps.
ResourceRow_ByOverlap(resource, daysInView, view, evts) ==
    LET Covers(event, day) ==
            DayOf(event.start) <= DayOf(day) /\ DayOf(day) <= DayOf(event.end)
        InRow(event) == event.resourceId = resource.id
    IN  CHOOSE row \in
            { [k \in 1..Len(daysInView) |->
                  LET OnDay(event) == Covers(event, daysInView[k])
                      cell == SelectSeq(resourceEvents, OnDay)
                  IN  [j \in 1..Len(cell) |-> Event(cell[j], view)]]
              : resourceEvents \in {SelectSeq(evts, InRow)} } : TRUE

\* One ResourceRow: for each day of daysInView, the directives of the
\* resource's events that start on that day, in store order.
\* (resourceEvents is bound through a singleton set so that it is computed once.)
ResourceRow(resource, daysInView, view, evts) ==
    LET InRow(event) ==
            /\ event.resourceId = resource.id
            /\ \E k \in 1..Len(daysInView) : isSameDay(daysInView[k], event.start)
    IN  CHOOSE row \in
            { [k \in 1..Len(daysInView) |->
                  LET OnDay(event) == isSameDay(event.start, daysInView[k])
                      cell == SelectSeq(resourceEvents, OnDay)
                  IN  [j \in 1..Len(cell) |-> Event(cell[j], view)]]
              : resourceEvents \in {SelectSeq(evts, InRow)} } : TRUE

\* One OpenShiftsRow: for each day of daysInView, the events of the "Open
\* Shifts" resource that start on that day and whose title starts with
\* "Open Shift for " followed by the name of the group.
\* (The filter is applied in two passes, the tests that do not depend on the
\* day first; the result is that of the single pass.  openShiftsForGroup is
\* bound through a singleton set so that it is computed once.)
OpenShiftsRow(group, daysInView, evts) ==
    LET ofGroup(event) ==
            /\ event.resourceId = openShiftResourceId
            /\ startsWith(event.title, Str_OpenShiftFor \o group.name)
    IN  CHOOSE row \in
            { [k \in 1..Len(daysInView) |->
                  LET onDay(event) == isSameDay(event.start, daysInView[k])
                  IN  IF openShiftsForGroup = <<>> THEN <<>>
                      ELSE SelectSeq(openShiftsForGroup, onDay)]
              : openShiftsForGroup \in {SelectSeq(evts, ofGroup)} } : TRUE

\* The groups that get an Open Shifts row: the expanded ones.
RowGroups(groups) == {g \in 1..Len(groups) : groups[g].isExpanded}

\* The resources that get a row: those of an expanded group.
RowResources(groups) ==
    { i \in 1..Len(resources) :
        \E g \in 1..Len(groups) :
            groups[g].isExpanded /\ resources[i].groupId = groups[g].id }

\* date-fns getYear
getYear(t) == getFullYear(t)

\* Mutant: the month tiles compare the month only.
MonthEventCount_IgnoresYear(evts, monthDate) ==
    LET InMonth(e) == getMonth(e.start) = getMonth(monthDate)
    IN  Len(SelectSeq(evts, InMonth))

\* events.filter(e => getMonth(e.start) === getMonth(monthDate) &&
\*                    getYear(e.start) === getYear(monthDate)).length
MonthEventCount(evts, monthDate) ==
    LET InMonth(e) == /\ getMonth(e.start) = getMonth(monthDate)
                      /\ getYear(e.start) = getYear(monthDate)
    IN  Len(SelectSeq(evts, InMonth))

\* events.filter(e => isSameDay(e.start, day)).length
DayEventCount(evts, day) ==
    LET OnDay(e) == isSameDay(e.start, day)
    IN  Len(SelectSeq(evts, OnDay))

\* The "Events: n" figures of the summary layouts, one per tile.
EventCounts(view, mc, evts) ==
    IF view = "year"
    THEN [i \in 1..Len(mc.months) |-> MonthEventCount(evts, mc.months[i])]
    ELSE IF view = "quarter"
    THEN [i \in 1..Len(mc.monthsInQuarter) |->
             MonthEventCount(evts, mc.monthsInQuarter[i])]
    ELSE IF view = "month"
    THEN [i \in 1..Len(mc.allDaysInMonthView) |->
             DayEventCount(evts, mc.allDaysInMonthView[i])]
    ELSE <<>>

\* Mutant: the day columns keep only the days on which a shown resource has
\* an event.
Render_SkipsEmptyDays(view, anchor, groups, evts) ==
    CHOOSE r \in
        { [ columnsToDisplay   |->
              LET Busy(day) ==
                      \E n \in DOMAIN evts : \E i \in RowResources(groups) :
                          /\ evts[n].resourceId = resources[i].id
                          /\ isSameDay(evts[n].start, day)
              IN  SelectSeq(mc.columnsToDisplay, Busy),
            headerColumns      |-> mc.headerColumns,
            months             |-> mc.months,
            monthsInQuarter    |-> mc.monthsInQuarter,
            allDaysInMonthView |-> mc.allDaysInMonthView,
            eventCounts        |-> EventCounts(view, mc, evts),
            rows               |-> <<>> ]
          : mc \in {MainCalendar(view, anchor)} } : TRUE

\* One render pass over a snapshot of the App state.
\* (mc and daysInView are bound through singleton sets: computed once.)
Render(view, anchor, groups, evts) ==
    CHOOSE r \in
        { [ columnsToDisplay   |-> mc.columnsToDisplay,
            headerColumns      |-> mc.headerColumns,
            months             |-> mc.months,
            monthsInQuarter    |-> mc.monthsInQuarter,
            allDaysInMonthView |-> mc.allDaysInMonthView,
            eventCounts        |-> EventCounts(view, mc, evts),
            rows |->
              IF view \notin SummaryViews
              THEN CHOOSE rs \in
                       { [i \in RowResources(groups) |->
                             ResourceRow(resources[i], daysInView, view, evts)]
                         : daysInView \in
                             {IF view = "day" THEN <<anchor>>
                              ELSE mc.columnsToDisplay} } : TRUE
              ELSE <<>> ]
          : mc \in {MainCalendar(view, anchor)} } : TRUE

\* The Open Shifts rows of a render pass, one for each expanded group; the
\* views of month tiles have none.
OpenShiftRows(view, anchor, groups, evts) ==
    IF view \notin SummaryViews
    THEN [g \in RowGroups(groups) |->
            OpenShiftsRow(groups[g],
                          IF view = "day" THEN <<anchor>>
                          ELSE MainCalendar(view, anchor).columnsToDisplay,
                          evts)]
    ELSE <<>>

----------------------------------------------------------------------------
(* App: view state and its handlers *)

\* The dates the date picker offers: every day of the modelled years.
AnchorDates ==
    { d * MinutesPerDay :
        d \in DaysFromCivil(2025 - YearSpan, 0, 1) ..
              DaysFromCivil(2025 + YearSpan, 11, 31) }

Init ==
    /\ currentWeekStart = today
    /\ currentView = "week"
    /\ shiftGroups = InitialShiftGroups
    /\ groupObjects = InitialGroupObjects
    /\ events = InitialEvents
    /\ isFormOpen = FALSE
    /\ defaultResourceIdForForm = Undefined
    /\ groupNameForOpenShift = Undefined
    /\ errorMessage = ""
    /\ rendered = Render("week", today, InitialShiftGroups, InitialEvents)
    /\ NoFirestoreApp
    /\ NoLudoGame

\* onClick={() => setCurrentView(v)}, followed by the re-render.  The modal
\* backdrop covers the page while the form is open.
setCurrentView(v) ==
    /\ ~isFormOpen
    /\ currentView' = v
    /\ rendered' = Render(v, currentWeekStart, shiftGroups, events)
    /\ UNCHANGED <<currentWeekStart, storeVars, formVars>>

\* The date picker hands over the midnight of the chosen day.
handleDateSelect(date) ==
    /\ ~isFormOpen
    /\ date \in AnchorDates
    /\ currentWeekStart' = date
    /\ rendered' = Render(currentView, date, shiftGroups, events)
    /\ UNCHANGED <<currentView, storeVars, formVars>>

\* addQuarters(date, n) is addMonths(date, 3 * n).
addQuarters(t, n) == addMonths(t, n * 3)

\* newDate.setDate(prev.getDate() + n) on a copy of prev.
SetDatePlus(prev, n) ==
    NewDate(getFullYear(prev), getMonth(prev), getDate(prev) + n,
            getHours(prev), getMinutes(prev))

\* newDate.setFullYear(prev.getFullYear() + n) on a copy of prev.
SetFullYearPlus(prev, n) ==
    NewDate(getFullYear(prev) + n, getMonth(prev), getDate(prev),
            getHours(prev), getMinutes(prev))

\* Mutant: Week view steps like Day view.
NextAnchor_WeekStepsOneDay(view, prev) ==
    IF view \in {"week", "day"} THEN SetDatePlus(prev, 1)
    ELSE IF view \in {"month", "month-detailed"} THEN addMonths(prev, 1)
    ELSE IF view = "year" THEN SetFullYearPlus(prev, 1)
    ELSE IF view \in {"quarter", "quarter-detailed"} THEN addQuarters(prev, 1)
    ELSE prev

\* The updater of goToNext.
NextAnchor(view, prev) ==
    IF view = "week" THEN SetDatePlus(prev, 7)
    ELSE IF view = "day" THEN SetDatePlus(prev, 1)
    ELSE IF view \in {"month", "month-detailed"} THEN addMonths(prev, 1)
    ELSE IF view = "year" THEN SetFullYearPlus(prev, 1)
    ELSE IF view \in {"quarter", "quarter-detailed"} THEN addQuarters(prev, 1)
    ELSE prev

\* The updater of goToPrevious.
PreviousAnchor(view, prev) ==
    IF view = "week" THEN SetDatePlus(prev, 0 - 7)
    ELSE IF view = "day" THEN SetDatePlus(prev, 0 - 1)
    ELSE IF view \in {"month", "month-detailed"} THEN addMonths(prev, 0 - 1)
    ELSE IF view = "year" THEN SetFullYearPlus(prev, 0 - 1)
    ELSE IF view \in {"quarter", "quarter-detailed"} THEN addQuarters(prev, 0 - 1)
    ELSE prev

\* The "next" button, while the anchor stays within the modelled years.
goToNext ==
    /\ ~isFormOpen
    /\ NextAnchor(currentView, currentWeekStart) \in AnchorDates
    /\ currentWeekStart' = NextAnchor(currentView, currentWeekStart)
    /\ UNCHANGED <<currentView, storeVars, formVars>>
    /\ rendered' = Render(currentView, currentWeekStart', shiftGroups, events)

\* The "previous" button, while the anchor stays within the modelled years.
goToPrevious ==
    /\ ~isFormOpen
    /\ PreviousAnchor(currentView, currentWeekStart) \in AnchorDates
    /\ currentWeekStart' = PreviousAnchor(currentView, currentWeekStart)
    /\ UNCHANGED <<currentView, storeVars, formVars>>
    /\ rendered' = Render(currentView, currentWeekStart', shiftGroups, events)

ViewNext ==
    \/ \E v \in ViewModes : setCurrentView(v) /\ UNCHANGED <<groupObjects, firestoreVars, ludoVars>>
    \/ \E off \in (0 - PickRange)..PickRange :
            /\ handleDateSelect(addDays(currentWeekStart, off))
            /\ UNCHANGED <<groupObjects, firestoreVars, ludoVars>>
    \/ goToNext /\ UNCHANGED <<groupObjects, firestoreVars, ludoVars>>
    \/ goToPrevious /\ UNCHANGED <<groupObjects, firestoreVars, ludoVars>>

SpecView == Init /\ [][ViewNext]_vars

\* A value of the currentView prop outside the seven view modes.
MalformedViews == {"agenda"}

\* The resolver is exercised on the anchor dates today .. today + ResolverSpan.
ResolverSpan == 15

\* <MainCalendar currentWeekStart={d} currentView={v} /> rendered by a caller
\* that is free in the props it passes.
RenderWithProps(v, d) ==
    /\ ~isFormOpen
    /\ currentView' = v
    /\ currentWeekStart' = d
    /\ rendered' = Render(v, d, shiftGroups, events)
    /\ UNCHANGED <<storeVars, formVars>>

ResolverNext ==
    \E v \in ViewModes \cup MalformedViews :
        \E off \in 0..ResolverSpan :
            /\ RenderWithProps(v, addDays(today, off))
            /\ UNCHANGED <<groupObjects, firestoreVars, ludoVars>>

SpecResolver == Init /\ [][ResolverNext]_vars

----------------------------------------------------------------------------
(* ShiftForm *)

\* An <input type="date"> value is "" or "yyyy-MM-dd", modelled as <<>> or
\* <<yyyy, MM, dd>>; an <input type="time"> value "HH:mm" is <<HH, mm>>.

\* date-fns validateDate / validateTime, as used by parseISO.
validateDate(year, month, date) ==
    /\ month >= 0 /\ month <= 11
    /\ date >= 1 /\ date <= DaysInMonth(year, month)

validateTime(hours, minutes) ==
    IF hours = 24 THEN minutes = 0
    ELSE minutes >= 0 /\ minutes < 60 /\ hours >= 0 /\ hours < 25

\* Mutant: the parsed month is not shifted to the Date constructor's 0-based
\* month.
parseISO_MonthNotShifted(date, time) ==
    IF date = <<>> \/ time = <<>> THEN NaN
    ELSE IF ~validateDate(date[1], date[2] - 1, date[3]) THEN NaN
    ELSE IF ~validateTime(time[1], time[2]) THEN NaN
    ELSE NewDate(date[1], date[2], date[3], time[1], time[2])

\* parseISO(`${date}T${time}:00`): an Invalid Date unless both parts parse.
parseISO(date, time) ==
    IF date = <<>> \/ time = <<>> THEN NaN
    ELSE IF ~validateDate(date[1], date[2] - 1, date[3]) THEN NaN
    ELSE IF ~validateTime(time[1], time[2]) THEN NaN
    ELSE NewDate(date[1], date[2] - 1, date[3], time[1], time[2])

\* Mutant: the comparison is strict.
DateLe_Strict(a, b) == ~isNaN(a) /\ ~isNaN(b) /\ a < b

\* a <= b on Dates: false when either side is an Invalid Date.
DateLe(a, b) == ~isNaN(a) /\ ~isNaN(b) /\ a <= b

MsgInvalidDate == "Invalid date or time format."
MsgEndAfterStart == "End time must be after start time."
MsgResourceAndTitle == "Please select a resource and enter a title."

\* Mutant: the title is tested without trimming.
Validate_TitleUntrimmed(startDateTime, endDateTime, resourceId, title) ==
    IF isNaN(startDateTime) \/ isNaN(endDateTime) THEN MsgInvalidDate
    ELSE IF DateLe(endDateTime, startDateTime) THEN MsgEndAfterStart
    ELSE IF resourceId = "" \/ title = <<>> THEN MsgResourceAndTitle
    ELSE ""

\* Mutant: the order of start and end is not tested.
Validate_NoOrderCheck(startDateTime, endDateTime, resourceId, title) ==
    IF isNaN(startDateTime) \/ isNaN(endDateTime) THEN MsgInvalidDate
    ELSE IF resourceId = "" \/ trim(title) = <<>> THEN MsgResourceAndTitle
    ELSE ""

\* The three validation steps of handleSubmit, in order: the message of the
\* first one that fails, "" when the submission is accepted.
Validate(startDateTime, endDateTime, resourceId, title) ==
    IF isNaN(startDateTime) \/ isNaN(endDateTime) THEN MsgInvalidDate
    ELSE IF DateLe(endDateTime, startDateTime) THEN MsgEndAfterStart
    ELSE IF resourceId = "" \/ trim(title) = <<>> THEN MsgResourceAndTitle
    ELSE ""

\* let finalTitle = title.trim(); prefixed for an open shift of a known group.
FinalTitle(title, resourceId, groupName) ==
    IF resourceId = "open-shift-resource-id" /\ groupName # Undefined
    THEN Str_OpenShiftFor \o groupName \o Str_ColonSpace \o trim(title)
    ELSE trim(title)

----------------------------------------------------------------------------
(* Inputs of the store specification *)

\* In any one store state at most this many events carry a generated id.
MaxGenerated == 1

D0 == <<2025, 5, 26>>
D1 == <<2025, 5, 27>>

\* A submission every validation step accepts.
ValidInput ==
    [resourceId |-> "res-1", title |-> Str_MorningShift,
     startDate |-> D0, startTime |-> <<9, 0>>,
     endDate |-> D0, endTime |-> <<13, 0>>]

\* The field values handleSubmit reads: the accepted submission, that
\* submission with one field changed, and the open-shift submissions.
\* resourceId "" is the select's value when no resource is listed.
SubmitInputs ==
    {ValidInput}
    \cup {[ValidInput EXCEPT !.resourceId = r] : r \in {"", openShiftResourceId}}
    \cup {[ValidInput EXCEPT !.title = t] :
             t \in {<<>>, <<" ">>, Str_Cover, <<" ">> \o Str_Cover \o <<" ">>}}
    \cup {[ValidInput EXCEPT !.startDate = <<>>]}
    \cup {[ValidInput EXCEPT !.startTime = <<8, 0>>]}
    \cup {[ValidInput EXCEPT !.endDate = e[1], !.endTime = e[2]] :
             e \in {<< <<2025, 2, 30>>, <<13, 0>> >>, << D0, <<8, 0>> >>,
                    << D0, <<9, 0>> >>, << D1, <<8, 0>> >>,
                    << D1, <<9, 0>> >>}}
    \cup {[ValidInput EXCEPT !.resourceId = openShiftResourceId, !.title = t] :
             t \in {Str_Cover, <<" ">> \o Str_Cover \o <<" ">>}}

\* `evt-${Date.now()}-${Math.random().toString(36).substr(2, 9)}`
GeneratedIds == {"evt-1748250000000-r" \o ToString(i) : i \in 1..MaxGenerated}

StoreViewInputs == {"week", "day", "month"}
ClickedResources == {1, 3}
ClickedGroups == {2}
DeleteInputs == {"evt-1"} \cup GeneratedIds

----------------------------------------------------------------------------
(* App: store and form handlers *)

\* const addEvent = (newEvent) => setEvents(prev => [...prev, {...newEvent, id}])
addEvent(evts, newEvent, id) ==
    Append(evts, [id |-> id, resourceId |-> newEvent.resourceId,
                  title |-> newEvent.title, start |-> newEvent.start,
                  end |-> newEvent.end])

\* openAddShiftForm(date, event, resourceId, groupName); ShiftForm's effect on
\* isOpen clears the message.
openAddShiftForm(resourceId, groupName) ==
    /\ ~isFormOpen
    /\ \E id \in GeneratedIds : \A k \in DOMAIN events : events[k].id # id
    /\ defaultResourceIdForForm' = resourceId
    /\ groupNameForOpenShift' = groupName
    /\ isFormOpen' = TRUE
    /\ errorMessage' = ""
    /\ UNCHANGED <<viewVars, storeVars>>

\* The "Add New Shift" button (a Daily Notes cell passes the same arguments).
ClickAddNewShift == openAddShiftForm(Undefined, Undefined)

\* A click on a cell of a rendered ResourceRow.
ClickResourceCell(i) ==
    /\ i \in DOMAIN rendered.rows
    /\ openAddShiftForm(resources[i].id, Undefined)

\* A click on a cell of the OpenShiftsRow of an expanded group.
ClickOpenShiftCell(g) ==
    /\ currentView \in RowViews
    /\ shiftGroups[g].isExpanded
    /\ openAddShiftForm(openShiftResourceId, shiftGroups[g].name)

\* The form's resourceId: the select is disabled, and keeps the default, when
\* the form was opened for an open shift.
FormResourceId(in) ==
    IF defaultResourceIdForForm = openShiftResourceId
    THEN openShiftResourceId ELSE in.resourceId

\* Mutant: a rejected submission closes the form.
handleSubmit_ClosesOnReject(in, id) ==
    /\ isFormOpen
    /\ \A k \in DOMAIN events : events[k].id # id
    /\ LET startDateTime == parseISO(in.startDate, in.startTime)
           endDateTime   == parseISO(in.endDate, in.endTime)
           resourceId    == FormResourceId(in)
           msg == Validate(startDateTime, endDateTime, resourceId, in.title)
       IN  IF msg # ""
           THEN /\ errorMessage' = msg
                /\ isFormOpen' = FALSE
                /\ UNCHANGED <<events, rendered>>
           ELSE /\ errorMessage' = ""
                /\ events' = addEvent(events,
                       [resourceId |-> resourceId,
                        title |-> FinalTitle(in.title, resourceId,
                                             groupNameForOpenShift),
                        start |-> startDateTime, end |-> endDateTime], id)
                /\ isFormOpen' = FALSE
                /\ rendered' = Render(currentView, currentWeekStart,
                                      shiftGroups, events')
    /\ UNCHANGED <<currentWeekStart, currentView, shiftGroups,
                   defaultResourceIdForForm, groupNameForOpenShift>>

\* ShiftForm.handleSubmit with the submitted field values; id is the id
\* addEvent generates, unused by any stored event.
handleSubmit(in, id) ==
    /\ isFormOpen
    /\ \A k \in DOMAIN events : events[k].id # id
    /\ LET startDateTime == parseISO(in.startDate, in.startTime)
           endDateTime   == parseISO(in.endDate, in.endTime)
           resourceId    == FormResourceId(in)
           msg == Validate(startDateTime, endDateTime, resourceId, in.title)
       IN  IF msg # ""
           THEN /\ errorMessage' = msg
                /\ UNCHANGED <<events, rendered, isFormOpen>>
           ELSE /\ errorMessage' = ""
                /\ events' = addEvent(events,
                       [resourceId |-> resourceId,
                        title |-> FinalTitle(in.title, resourceId,
                                             groupNameForOpenShift),
                        start |-> startDateTime, end |-> endDateTime], id)
                /\ isFormOpen' = FALSE
                /\ rendered' = Render(currentView, currentWeekStart,
                                      shiftGroups, events')
    /\ UNCHANGED <<currentWeekStart, currentView, shiftGroups,
                   defaultResourceIdForForm, groupNameForOpenShift>>

\* The Cancel button: onClose.
onClose ==
    /\ isFormOpen
    /\ isFormOpen' = FALSE
    /\ UNCHANGED <<viewVars, storeVars, defaultResourceIdForForm,
                   groupNameForOpenShift, errorMessage>>

\* A filter that stops at the first event with the given id: that event and
\* every later one are dropped.
WithoutEvent_Truncates(prevEvents, eventId) ==
    LET hits == {k \in DOMAIN prevEvents : prevEvents[k].id = eventId}
    IN  IF hits = {} THEN prevEvents
        ELSE SubSeq(prevEvents, 1,
                    (CHOOSE k \in hits : \A h \in hits : k <= h) - 1)

\* prevEvents.filter((event) => event.id !== eventId)
WithoutEvent(prevEvents, eventId) ==
    LET Keep(event) == event.id # eventId
    IN  SelectSeq(prevEvents, Keep)

\* The delete button of a rendered Event, confirmed.
deleteEvent(eventId) ==
    /\ ~isFormOpen
    /\ \E i \in DOMAIN rendered.rows :
         \E k \in DOMAIN rendered.rows[i] :
           \E j \in DOMAIN rendered.rows[i][k] :
              rendered.rows[i][k][j].id = eventId
    /\ events' = WithoutEvent(events, eventId)
    /\ rendered' = Render(currentView, currentWeekStart, shiftGroups, events')
    /\ UNCHANGED <<currentWeekStart, currentView, shiftGroups, formVars>>

\* The identity of the object an object spread { ...group } allocates for
\* index g: one that no object of the current array has.  An object replaced
\* two updates ago is held by no one, so its identity is free again.
NewGroupRef(g) ==
    IF groupObjects.refs[g] = g THEN g + Len(shiftGroups) ELSE g

\* prevGroups.map(...) with the target written in place (group.isExpanded =
\* !group.isExpanded; return group): the objects keep their identity.
toggleGroupExpansion_InPlace(groupId) ==
    /\ ~isFormOpen
    /\ currentView \in RowViews
    /\ groupObjects' =
         [groupObjects EXCEPT !.objs =
            [r \in DOMAIN groupObjects.objs |->
               IF groupObjects.objs[r].id = groupId
                  /\ \E g \in DOMAIN shiftGroups : groupObjects.refs[g] = r
               THEN [groupObjects.objs[r] EXCEPT
                        !.isExpanded = ~groupObjects.objs[r].isExpanded]
               ELSE groupObjects.objs[r]]]
    /\ shiftGroups' = [g \in DOMAIN shiftGroups |->
                          groupObjects'.objs[groupObjects'.refs[g]]]
    /\ rendered' = Render(currentView, currentWeekStart, shiftGroups', events)
    /\ UNCHANGED <<currentWeekStart, currentView, events, formVars>>

\* A click on a group header: prevGroups.map((group) => group.id === groupId
\* ? { ...group, isExpanded: !group.isExpanded } : group).
toggleGroupExpansion(groupId) ==
    /\ ~isFormOpen
    /\ currentView \in RowViews
    /\ LET Hit(g) == shiftGroups[g].id = groupId
           refs == [g \in DOMAIN shiftGroups |->
                      IF Hit(g) THEN NewGroupRef(g) ELSE groupObjects.refs[g]]
           kept == {groupObjects.refs[g] : g \in DOMAIN shiftGroups}
           made == {refs[g] : g \in DOMAIN shiftGroups} \ kept
           objs == [r \in kept \cup made |->
                      IF r \in made
                      THEN LET g == CHOOSE h \in DOMAIN shiftGroups : refs[h] = r
                           IN  [shiftGroups[g] EXCEPT
                                  !.isExpanded = ~shiftGroups[g].isExpanded]
                      ELSE groupObjects.objs[r]]
       IN  /\ groupObjects' = [refs |-> refs, objs |-> objs]
           /\ shiftGroups' = [g \in DOMAIN shiftGroups |-> objs[refs[g]]]
    /\ rendered' = Render(currentView, currentWeekStart, shiftGroups', events)
    /\ UNCHANGED <<currentWeekStart, currentView, events, formVars>>

StoreNext ==
    \/ \E v \in StoreViewInputs : setCurrentView(v) /\ UNCHANGED <<groupObjects, firestoreVars, ludoVars>>
    \/ ClickAddNewShift /\ UNCHANGED <<groupObjects, firestoreVars, ludoVars>>
    \/ \E i \in ClickedResources : ClickResourceCell(i) /\ UNCHANGED <<groupObjects, firestoreVars, ludoVars>>
    \/ \E g \in ClickedGroups : ClickOpenShiftCell(g) /\ UNCHANGED <<groupObjects, firestoreVars, ludoVars>>
    \/ \E in \in SubmitInputs, id \in GeneratedIds :
            handleSubmit(in, id) /\ UNCHANGED <<groupObjects, firestoreVars, ludoVars>>
    \/ onClose /\ UNCHANGED <<groupObjects, firestoreVars, ludoVars>>
    \/ \E eventId \in DeleteInputs : deleteEvent(eventId) /\ UNCHANGED <<groupObjects, firestoreVars, ludoVars>>
    \/ \E g \in ClickedGroups :
            toggleGroupExpansion(shiftGroups[g].id)
            /\ UNCHANGED <<firestoreVars, ludoVars>>

SpecStore == Init /\ [][StoreNext]_vars

----------------------------------------------------------------------------
(* Calendar facts the properties are stated against, written without the    *)
(* date-fns operators above.                                                *)

\* 2025-05-25 was a Sunday; a day number is a Sunday iff it is a whole number
\* of weeks away from it.
IsSunday(dayNumber) == (dayNumber - DaysFromCivil(2025, 4, 25)) % 7 = 0

SundayOnOrBefore(dayNumber) ==
    CHOOSE s \in (dayNumber - 6)..dayNumber : IsSunday(s)

SaturdayOnOrAfter(dayNumber) ==
    CHOOSE e \in dayNumber..(dayNumber + 6) : IsSunday(e + 1)

IsMonthStart(dayNumber) == CivilFromDays(dayNumber).d = 1

IsQuarterStart(dayNumber) ==
    IsMonthStart(dayNumber) /\ CivilFromDays(dayNumber).m0 \in {0, 3, 6, 9}

\* First and last day number of the month that contains t: the latest month
\* start on or before t, and the day before the earliest month start after t.
MonthFirstDay(t) ==
    CHOOSE d \in (DayOf(t) - 30)..DayOf(t) :
        IsMonthStart(d) /\ \A d2 \in (d + 1)..DayOf(t) : ~IsMonthStart(d2)

MonthLastDay(t) ==
    CHOOSE d \in DayOf(t)..(DayOf(t) + 30) :
        IsMonthStart(d + 1) /\ \A d2 \in (DayOf(t) + 1)..d : ~IsMonthStart(d2)

\* First and last day number of the quarter that contains t.
QuarterFirstDay(t) ==
    CHOOSE d \in (DayOf(t) - 91)..DayOf(t) :
        IsQuarterStart(d) /\ \A d2 \in (d + 1)..DayOf(t) : ~IsQuarterStart(d2)

QuarterLastDay(t) ==
    CHOOSE d \in DayOf(t)..(DayOf(t) + 91) :
        IsQuarterStart(d + 1) /\ \A d2 \in (DayOf(t) + 1)..d : ~IsQuarterStart(d2)

\* The midnights of the consecutive days from the Sunday on/before firstDay
\* through the Saturday on/after lastDay.
PaddedGrid(firstDay, lastDay) ==
    LET s == SundayOnOrBefore(firstDay)
        e == SaturdayOnOrAfter(lastDay)
    IN  [i \in 1..(e - s + 1) |-> (s + i - 1) * MinutesPerDay]

----------------------------------------------------------------------------
(* Properties of the view resolver (specification SpecView) *)

\* C1: for every anchor date the Week view resolves to exactly 7 daily
\* buckets, consecutive days, the first of which is the Sunday on or before
\* the anchor date.
C1_WeekIsSevenDaysFromSunday ==
    currentView = "week" =>
        LET cols == rendered.columnsToDisplay
        IN  /\ Len(cols) = 7
            /\ cols[1] = SundayOnOrBefore(DayOf(currentWeekStart)) * MinutesPerDay
            /\ IsSunday(DayOf(cols[1]))
            /\ \A i \in 1..7 : cols[i] = cols[1] + (i - 1) * MinutesPerDay

\* C1 witness: the Week view of a Saturday anchor, whose Sunday lies six days
\* back.
C1_Witness ==
    /\ currentView = "week"
    /\ ~IsSunday(DayOf(currentWeekStart))
    /\ IsSunday(DayOf(currentWeekStart) + 1)
    /\ Len(rendered.columnsToDisplay) = 7
    /\ rendered.columnsToDisplay[1] = currentWeekStart - 6 * MinutesPerDay

\* C2: in Month and MonthDetailed view the bucket count is a multiple of 7 and
\* the buckets are the consecutive days from the Sunday on/before the first of
\* the anchor's month through the Saturday on/after its last day, so that the
\* first and the last day of the month lie in the range.
C2_MonthGridIsWholeWeeks ==
    currentView \in {"month", "month-detailed"} =>
        LET cols  == Buckets(rendered, currentView)
            first == MonthFirstDay(currentWeekStart) * MinutesPerDay
            last  == MonthLastDay(currentWeekStart) * MinutesPerDay
        IN  /\ Len(cols) % 7 = 0
            /\ cols = PaddedGrid(MonthFirstDay(currentWeekStart),
                                 MonthLastDay(currentWeekStart))
            /\ rendered.columnsToDisplay = cols
            /\ \E i \in 1..Len(cols) : cols[i] = first
            /\ \E i \in 1..Len(cols) : cols[i] = last

\* C2 witness: a Month view that needs padding on both sides (six weeks).
C2_Witness ==
    /\ currentView = "month"
    /\ Len(rendered.allDaysInMonthView) = 42
    /\ getMonth(rendered.allDaysInMonthView[1]) # getMonth(currentWeekStart)
    /\ getMonth(rendered.allDaysInMonthView[42]) # getMonth(currentWeekStart)

\* C3 as stated (refuted): in Quarter and in QuarterDetailed view the buckets
\* are the consecutive days from the Sunday on/before the first day of the
\* anchor's quarter through the Saturday on/after its last day.
C3_Original ==
    currentView \in {"quarter", "quarter-detailed"} =>
        Buckets(rendered, currentView) =
            PaddedGrid(QuarterFirstDay(currentWeekStart),
                       QuarterLastDay(currentWeekStart))

\* C3 amended: the padded day grid of the quarter is what QuarterDetailed
\* resolves to; the Quarter summary resolves no day columns but three month
\* buckets, the first days of the three months of the anchor's quarter.
C3_QuarterDetailedGrid ==
    /\ currentView = "quarter-detailed" =>
            rendered.columnsToDisplay =
                PaddedGrid(QuarterFirstDay(currentWeekStart),
                           QuarterLastDay(currentWeekStart))
    /\ currentView = "quarter" =>
            /\ rendered.columnsToDisplay = <<>>
            /\ Len(rendered.monthsInQuarter) = 3
            /\ rendered.monthsInQuarter[1] =
                   QuarterFirstDay(currentWeekStart) * MinutesPerDay
            /\ \A i \in 1..3 :
                   /\ getDate(rendered.monthsInQuarter[i]) = 1
                   /\ getMonth(rendered.monthsInQuarter[i]) =
                          getMonth(rendered.monthsInQuarter[1]) + i - 1
                   /\ getFullYear(rendered.monthsInQuarter[i]) =
                          getFullYear(currentWeekStart)

\* C3 witness: a QuarterDetailed grid padded before the quarter's first day,
\* for an anchor that is not in the quarter's first month.
C3_Witness ==
    /\ currentView = "quarter-detailed"
    /\ Len(rendered.columnsToDisplay) = 98
    /\ getMonth(currentWeekStart) % 3 = 2
    /\ rendered.columnsToDisplay[1] <
           QuarterFirstDay(currentWeekStart) * MinutesPerDay

\* C11: "next" in Week view moves the anchor forward by exactly 7 days (from
\* 2025-05-26 to 2025-06-02), and "next" in Month view moves it into the
\* following calendar month (from May 2025 to June 2025).
C11_NextStepsWeekAndMonth ==
    [][goToNext =>
          /\ currentView = "week" =>
                /\ currentWeekStart' = currentWeekStart + 7 * 1440
                /\ currentWeekStart = today =>
                      /\ getFullYear(currentWeekStart') = 2025
                      /\ getMonth(currentWeekStart') = 5
                      /\ getDate(currentWeekStart') = 2
          /\ currentView = "month" =>
                getFullYear(currentWeekStart') * 12 + getMonth(currentWeekStart')
                    = getFullYear(currentWeekStart) * 12
                          + getMonth(currentWeekStart) + 1]_vars

\* C11 witness: the Week view anchored at 2025-06-02, one "next" after the
\* initial state.
C11_Witness ==
    /\ currentView = "week"
    /\ getFullYear(currentWeekStart) = 2025
    /\ getMonth(currentWeekStart) = 5
    /\ getDate(currentWeekStart) = 2

\* C18: the bucket sequence is bounded by view mode: exactly 24 hourly
\* buckets labelled "12am" through "11pm" for Day, 7 for Week, at most 42 for
\* the Month grids, at most 98 for the Quarter grids, and exactly 12 month
\* buckets, the months of the anchor date's year, for Year.
C18_BucketCountBounds ==
    LET b == Buckets(rendered, currentView)
    IN  /\ currentView = "day" =>
              /\ Len(b) = 24
              /\ b[1] = "12am" /\ b[2] = "1am" /\ b[12] = "11am"
              /\ b[13] = "12pm" /\ b[14] = "1pm" /\ b[24] = "11pm"
        /\ currentView = "week" => Len(b) = 7
        /\ currentView \in {"month", "month-detailed"} => Len(b) <= 42
        /\ currentView \in {"quarter", "quarter-detailed"} => Len(b) <= 98
        /\ currentView = "year" =>
              /\ Len(b) = 12
              /\ \A i \in 1..12 :
                    /\ getFullYear(b[i]) = getFullYear(currentWeekStart)
                    /\ getMonth(b[i]) = i - 1
                    /\ getDate(b[i]) = 1

\* C18 witness: the Day view with its 24 hour headers.
C18_Witness ==
    /\ currentView = "day"
    /\ Len(rendered.headerColumns) = 24
    /\ rendered.headerColumns[1] = "12am"
    /\ rendered.headerColumns[24] = "11pm"
    /\ currentWeekStart # today

----------------------------------------------------------------------------
(* Properties of the shift form and the store (specification SpecStore) *)

\* The positioned boxes of the rendered Day view.
DayBoxes ==
    IF currentView = "day"
    THEN UNION { {rendered.rows[i][1][j] : j \in DOMAIN rendered.rows[i][1]}
                 : i \in DOMAIN rendered.rows }
    ELSE {}

\* Percent values as fractions of the day: p.num / p.den percent.
FracNonNeg(p) == p.num >= 0
FracBelowOne(p) == p.num < 100 * p.den
FracPositive(p) == p.num > 0
FracSumAtMostOne(p, q) == p.num * q.den + q.num * p.den <= 100 * p.den * q.den

\* C4: every Day-view box of an event with end > start whose start and end are
\* on the same calendar day has leftFraction = startMinutesOfDay / 1440 with
\* 0 <= leftFraction < 1 and leftFraction + widthFraction <= 1.
C4_SameDayBoxWithinDay ==
    \A b \in DayBoxes :
        (b.end > b.start /\ b.start \div 1440 = b.end \div 1440) =>
            /\ b.left.num * 1440 = (b.start % 1440) * 100 * b.left.den
            /\ b.width.num * 1440 = (b.end - b.start) * 100 * b.width.den
            /\ FracNonNeg(b.left)
            /\ FracBelowOne(b.left)
            /\ FracSumAtMostOne(b.left, b.width)

\* C4 witness: the Day view of 2025-05-26 shows the box of a submitted
\* 09:00-13:00 shift at 37.5 percent, next to the seeded 13:00-17:00 shift.
C4_Witness ==
    /\ currentView = "day"
    /\ \E b \in DayBoxes :
          /\ b.id \in GeneratedIds
          /\ b.end = b.start + 4 * 60
          /\ b.left.num * 1000 = 375 * 100 * b.left.den
    /\ \E b \in DayBoxes : b.id = "evt-2"

\* C5 as stated (refuted): every Day-view box of an event with end > start,
\* whose start lies within the displayed day, has a strictly positive
\* widthFraction and a leftFraction in [0, 1).
C5_Original ==
    \A b \in DayBoxes :
        (b.end > b.start /\ b.start \div 1440 = currentWeekStart \div 1440) =>
            /\ FracPositive(b.width)
            /\ FracNonNeg(b.left)
            /\ FracBelowOne(b.left)

\* The submitted date as handleSubmit must judge it, stated on the calendar:
\* one of the 31 days from the first of its month on carries this year, month
\* and day of month.
IsCalendarDate(date) ==
    /\ date # <<>>
    /\ date[2] \in 1..12
    /\ \E k \in 0..30 :
          CivilFromDays(DaysFromCivil(date[1], date[2] - 1, 1) + k)
              = [y |-> date[1], m0 |-> date[2] - 1, d |-> date[3]]

\* <<year, month, day, hour, minute>> of a submitted date and time.
Stamp(date, time) == <<date[1], date[2], date[3], time[1], time[2]>>

StampBefore(a, b) ==
    \E i \in 1..5 : a[i] < b[i] /\ \A j \in 1..(i - 1) : a[j] = b[j]

BothParse(in) == IsCalendarDate(in.startDate) /\ IsCalendarDate(in.endDate)

EndAfterStart(in) ==
    StampBefore(Stamp(in.startDate, in.startTime), Stamp(in.endDate, in.endTime))

\* C6: a submission adds an event to the store only if start and end both
\* parse, end > start, a resource is selected and the title has a
\* non-whitespace character; a submission violating any of these leaves the
\* store as it is.
C6_AddsOnlyIfValid ==
    [][\A in \in SubmitInputs, id \in GeneratedIds :
          handleSubmit(in, id) =>
              LET ok == /\ BothParse(in)
                        /\ EndAfterStart(in)
                        /\ FormResourceId(in) # ""
                        /\ \E k \in DOMAIN in.title : in.title[k] # " "
              IN  /\ Len(events') > Len(events) => ok
                  /\ ~ok => events' = events /\ errorMessage' # ""]_vars

\* C6 witness: a submission with a whitespace-only title was turned down and
\* the store still holds the seeded events only.
C6_Witness ==
    /\ isFormOpen
    /\ errorMessage = MsgResourceAndTitle
    /\ events = InitialEvents

\* C7: a submission whose start and end both parse and whose end is not after
\* its start (end equal to start included) is rejected with the message
\* "End time must be after start time.": no event is added and the form stays
\* open.
C7_EndNotAfterStartRejected ==
    [][\A in \in SubmitInputs, id \in GeneratedIds :
          (/\ in.startDate # <<>> /\ in.endDate # <<>>
           /\ ~EndAfterStart(in)
           /\ handleSubmit(in, id)
           /\ BothParse(in)) =>
              /\ errorMessage' = "End time must be after start time."
              /\ events' = events
              /\ isFormOpen']_vars

\* C7 witness: the form shows the message and nothing was added.
C7_Witness ==
    /\ isFormOpen
    /\ errorMessage = "End time must be after start time."
    /\ Len(events) = Len(InitialEvents)
    /\ \A k \in DOMAIN events : events[k].id \notin GeneratedIds

\* C8 as stated (refuted): whenever a submission is accepted and the selected
\* resource is the "Open Shifts" resource, the stored title is
\* "Open Shift for {groupName}: {title}" for the name of some group.
C8_Original ==
    [][\A in \in SubmitInputs, id \in GeneratedIds :
          (/\ handleSubmit(in, id)
           /\ Len(events') > Len(events)
           /\ FormResourceId(in) = "open-shift-resource-id") =>
              \E g \in DOMAIN shiftGroups :
                  events'[Len(events')].title =
                      Str_OpenShiftFor \o shiftGroups[g].name
                          \o Str_ColonSpace \o trim(in.title)]_vars

\* C9: submitting resourceId "res-1", title "Morning Shift", start
\* 2025-05-26T09:00, end 2025-05-26T13:00 is accepted: the form closes and
\* exactly one event is appended to the store, with a generated id no stored
\* event had, resourceId "res-1", that start and end, and the title unchanged.
C9_WellFormedShiftStored ==
    [][\A id \in GeneratedIds :
          (handleSubmit(ValidInput, id) /\ FormResourceId(ValidInput) = "res-1") =>
              /\ events' = Append(events,
                     [id |-> id, resourceId |-> "res-1",
                      title |-> Str_MorningShift,
                      start |-> today + 9 * 60, end |-> today + 13 * 60])
              /\ \A k \in DOMAIN events : events[k].id # id
              /\ ~isFormOpen'
              /\ errorMessage' = ""]_vars

\* C9 witness: the store holds the seeded events followed by that shift.
C9_Witness ==
    /\ ~isFormOpen
    /\ Len(events) = Len(InitialEvents) + 1
    /\ SubSeq(events, 1, Len(InitialEvents)) = InitialEvents
    /\ LET e == events[Len(events)]
       IN  /\ e.id \in GeneratedIds
           /\ e.resourceId = "res-1"
           /\ e.title = Str_MorningShift
           /\ getHours(e.start) = 9 /\ getHours(e.end) = 13
           /\ DayOf(e.start) = DayOf(today) /\ DayOf(e.end) = DayOf(today)

\* C10: in every reachable state of the store, from the seeded events through
\* any sequence of shift submissions and event deletions, every stored event
\* has end > start.
C10_StoredEventsEndAfterStart ==
    \A k \in DOMAIN events : events[k].end > events[k].start

\* C10 witness: a seeded event was deleted and a submitted overnight shift
\* was stored.
C10_Witness ==
    /\ \A k \in DOMAIN events : events[k].id # "evt-1"
    /\ \E k \in DOMAIN events :
          /\ events[k].id \in GeneratedIds
          /\ DayOf(events[k].end) = DayOf(events[k].start) + 1

\* The day columns of the rendered rows.
RenderedDays ==
    IF currentView = "day" THEN <<currentWeekStart>>
    ELSE rendered.columnsToDisplay

\* C12: in every rendered resource row an event of that resource is in the
\* cell of a day exactly when its start falls on that calendar day; an event
\* that ends on a later day is in the cell of its start day and in no other.
C12_BucketByStartDay ==
    currentView \in RowViews =>
        \A i \in DOMAIN rendered.rows :
            \A k \in 1..Len(RenderedDays) :
                \A n \in DOMAIN events :
                    events[n].resourceId = resources[i].id =>
                        ((\E j \in DOMAIN rendered.rows[i][k] :
                             /\ rendered.rows[i][k][j].id = events[n].id
                             /\ rendered.rows[i][k][j].start = events[n].start
                             /\ rendered.rows[i][k][j].end = events[n].end)
                         <=> events[n].start \div 1440 = RenderedDays[k] \div 1440)

\* C12 witness: the Week view holds a submitted shift that spans midnight in
\* the cell of its start day, while the cell of its end day holds only the
\* event seeded for that day.
C12_Witness ==
    /\ currentView = "week"
    /\ 1 \in DOMAIN rendered.rows
    /\ \E k \in 1..6 :
          /\ \E j \in DOMAIN rendered.rows[1][k] :
                LET b == rendered.rows[1][k][j]
                IN  /\ b.id \in GeneratedIds
                    /\ b.end \div 1440 = RenderedDays[k + 1] \div 1440
          /\ \A j \in DOMAIN rendered.rows[1][k + 1] :
                rendered.rows[1][k + 1][j].id = "evt-3"
          /\ rendered.rows[1][k + 1] # <<>>

\* The stored events whose start lies in the minutes from..(to - 1).
StartsWithin(from, to) ==
    {n \in DOMAIN events : from <= events[n].start /\ events[n].start < to}

StoreIndex(b) ==
    CHOOSE n \in DOMAIN events :
        events[n].id = b.id /\ events[n].start = b.start /\ events[n].end = b.end

\* The cells of the rendered day-resolution layout (not the Day view).
StackedCells ==
    IF currentView \in RowViews \ {"day"}
    THEN UNION { {rendered.rows[i][k] : k \in DOMAIN rendered.rows[i]}
                 : i \in DOMAIN rendered.rows }
    ELSE {}

\* C14 as stated (refuted): the events within one bucket are stacked sorted by
\* start time, ties in insertion order.
C14_Original ==
    \A cell \in StackedCells :
        \A j1, j2 \in DOMAIN cell :
            j1 < j2 =>
                \/ cell[j1].start < cell[j2].start
                \/ /\ cell[j1].start = cell[j2].start
                   /\ StoreIndex(cell[j1]) < StoreIndex(cell[j2])

\* C14 amended: the events within one bucket are stacked in the order of the
\* store, that is in insertion order, whatever their start times.
C14_StackedInStoreOrder ==
    \A cell \in StackedCells :
        \A j1, j2 \in DOMAIN cell :
            j1 < j2 => StoreIndex(cell[j1]) < StoreIndex(cell[j2])

\* C14 witness: a Week-view cell stacks the seeded 09:00 shift above a shift
\* submitted later that starts at 08:00.
C14_Witness ==
    \E cell \in StackedCells :
        /\ Len(cell) = 2
        /\ cell[1].id = "evt-1"
        /\ cell[2].id \in GeneratedIds
        /\ cell[2].start < cell[1].start

\* C15: for each of the seven view modes and every anchor date the resolver
\* yields a non-empty bucket sequence that is valid: 24 hour labels for the
\* anchor day in Day view, and otherwise valid dates at midnight in strictly
\* increasing order.
C15_BucketsNonEmptyAndValid ==
    /\ currentView \in ViewModes
    /\ LET b == Buckets(rendered, currentView)
       IN  /\ Len(b) >= 1
           /\ currentView = "day" =>
                 /\ rendered.columnsToDisplay = <<currentWeekStart>>
                 /\ \A i, j \in 1..Len(b) : i # j => b[i] # b[j]
           /\ currentView # "day" =>
                 /\ \A i \in 1..Len(b) : b[i] # NaN /\ b[i] % 1440 = 0
                 /\ \A i \in 1..(Len(b) - 1) : b[i] < b[i + 1]

\* C15 witness: the Year view resolved for the anchor 2024-02-29.
C15_Witness ==
    /\ currentView = "year"
    /\ getFullYear(currentWeekStart) = 2024
    /\ getMonth(currentWeekStart) = 1
    /\ getDate(currentWeekStart) = 29
    /\ Len(Buckets(rendered, currentView)) = 12

\* C17: an event whose Day-view duration is zero or negative does not stop
\* the layout: its box is clamped to the minimum width of 40 px, never to a
\* zero or negative width, and every event of the displayed day still has
\* its box in its resource's row.
C17_DegenerateWidthClamped ==
    currentView = "day" =>
        /\ \A b \in DayBoxes :
              b.width.num <= 0 =>
                  /\ b.minWidth = 40
                  /\ MinUsedWidthPx(b) >= 40
        /\ \A i \in DOMAIN rendered.rows :
              Len(rendered.rows[i][1]) =
                  Cardinality({n \in DOMAIN events :
                      /\ events[n].resourceId = resources[i].id
                      /\ events[n].start \div 1440 = currentWeekStart \div 1440})

\* C17 witness: the Day view of 2025-05-26 lays out a submitted overnight
\* shift, whose computed width is negative, next to the seeded shift of the
\* same resource.
C17_Witness ==
    /\ currentView = "day"
    /\ 1 \in DOMAIN rendered.rows
    /\ Len(rendered.rows[1][1]) = 2
    /\ rendered.rows[1][1][1].id = "evt-1"
    /\ rendered.rows[1][1][1].width.num > 0
    /\ rendered.rows[1][1][2].width.num < 0
    /\ MinUsedWidthPx(rendered.rows[1][1][2]) = 40

C20_RejectionIsCorrectable ==
    /\ [](isFormOpen =>
             \E id \in GeneratedIds : \A k \in DOMAIN events : events[k].id # id)
    /\ [](errorMessage # "" =>
             errorMessage \in {MsgInvalidDate, MsgEndAfterStart, MsgResourceAndTitle})
    /\ [][\A in \in SubmitInputs, id \in GeneratedIds :
             handleSubmit(in, id) =>
                 /\ errorMessage' # "" =>
                       /\ isFormOpen'
                       /\ events' = events
                       /\ rendered' = rendered
                 /\ (errorMessage # "" /\ in = ValidInput) =>
                       /\ errorMessage' = ""
                       /\ ~isFormOpen'
                       /\ Len(events') = Len(events) + 1
                       /\ events'[Len(events')].id = id]_vars

\* C20 witness: a submission with an unparsable date was turned down: the
\* form is open and shows the message, the store holds the seeded events,
\* and an id is free for the corrected submission.
C20_Witness ==
    /\ isFormOpen
    /\ errorMessage = MsgInvalidDate
    /\ events = InitialEvents
    /\ \E id \in GeneratedIds : \A k \in DOMAIN events : events[k].id # id

----------------------------------------------------------------------------
(* Properties of the resolver on arbitrary props (specification SpecResolver) *)

\* C16 as stated (refuted): for a view mode outside the defined set the
\* resolver yields no bucket sequence at all (it fails with an invalid-input
\* signal); it does not fall back to an empty bucket sequence.
C16_Original ==
    currentView \notin ViewModes =>
        /\ "columnsToDisplay" \notin DOMAIN rendered
        /\ "rows" \notin DOMAIN rendered

----------------------------------------------------------------------------
(* AppComponent (App.tsx): the variant whose Day view shares the Week step. *)
(* Its MainCalendar and ShiftForm are imported from files outside src/, so  *)
(* only its anchor and view state are modelled; rendered and the store are  *)
(* left as they are.                                                        *)

\* useState(new Date()): the instant of the first render, here one of two.
AppComponentNow ==
    {NewDate(2025, 4, 26, 9, 30), NewDate(2025, 0, 31, 23, 15)}

\* The view buttons of AppComponent.
AppComponentViews == {"week", "day", "month", "quarter"}

InitAppComponent ==
    /\ currentWeekStart \in AppComponentNow
    /\ currentView = "week"
    /\ shiftGroups = InitialShiftGroups
    /\ groupObjects = InitialGroupObjects
    /\ events = InitialEvents
    /\ isFormOpen = FALSE
    /\ defaultResourceIdForForm = Undefined
    /\ groupNameForOpenShift = Undefined
    /\ errorMessage = ""
    /\ rendered = Render("week", today, InitialShiftGroups, InitialEvents)
    /\ NoFirestoreApp
    /\ NoLudoGame

\* The switch of AppComponent's goToNext.
AppComponent_NextAnchor(view, prev) ==
    IF view \in {"day", "week"} THEN addDays(prev, 7)
    ELSE IF view \in {"month", "month-detailed"} THEN addMonths(prev, 1)
    ELSE IF view \in {"quarter", "quarter-detailed"} THEN addQuarters(prev, 1)
    ELSE prev

\* The switch of AppComponent's goToPrevious.
AppComponent_PreviousAnchor(view, prev) ==
    IF view \in {"day", "week"} THEN addDays(prev, 0 - 7)
    ELSE IF view \in {"month", "month-detailed"} THEN addMonths(prev, 0 - 1)
    ELSE IF view \in {"quarter", "quarter-detailed"}
         THEN addQuarters(prev, 0 - 1)
    ELSE prev

AppComponent_frame ==
    UNCHANGED <<rendered, storeVars, groupObjects, formVars, firestoreVars,
                ludoVars>>

AppComponent_setCurrentView(v) ==
    /\ currentView' = v
    /\ UNCHANGED currentWeekStart
    /\ AppComponent_frame

AppComponent_handleDateSelect(date) ==
    /\ date \in AnchorDates
    /\ currentWeekStart' = date
    /\ UNCHANGED currentView
    /\ AppComponent_frame

\* The "Next" button, while the anchor stays within the modelled years.
AppComponent_goToNext ==
    /\ StartOfDay(AppComponent_NextAnchor(currentView, currentWeekStart))
          \in AnchorDates
    /\ currentWeekStart' = AppComponent_NextAnchor(currentView, currentWeekStart)
    /\ UNCHANGED currentView
    /\ AppComponent_frame

\* The "Previous" button, while the anchor stays within the modelled years.
AppComponent_goToPrevious ==
    /\ StartOfDay(AppComponent_PreviousAnchor(currentView, currentWeekStart))
          \in AnchorDates
    /\ currentWeekStart' =
          AppComponent_PreviousAnchor(currentView, currentWeekStart)
    /\ UNCHANGED currentView
    /\ AppComponent_frame

AppComponentNext ==
    \/ \E v \in AppComponentViews : AppComponent_setCurrentView(v)
    \/ \E off \in (0 - PickRange)..PickRange :
            AppComponent_handleDateSelect(
                StartOfDay(addDays(currentWeekStart, off)))
    \/ AppComponent_goToNext
    \/ AppComponent_goToPrevious

SpecAppComponent == InitAppComponent /\ [][AppComponentNext]_vars

----------------------------------------------------------------------------
(* The Firestore App (part_000): the variant whose store is a Firestore     *)
(* database.  Handlers await their writes; snapshot listeners copy the      *)
(* collections into the App state.  Its view handlers are those of the App  *)
(* above and are left out here.                                             *)

\* At most this many writes are awaited at a time.
MaxPending == 1

\* At most this many documents are added.
MaxDocs == 1

\* The ids addDoc generates.  A query without orderBy lists documents by id,
\* and an id starting with an upper-case letter sorts before "evt-1".
DocIds == {"AutoId" \o ToString(i) : i \in 1..MaxDocs}

MsgNotReady == "Database not ready or user not authenticated."
MsgAddFailed == "Failed to add event"

\* The test `!db || !userId` of the three store functions, negated.
StoreReady == db # Null /\ userId # Null

\* What App returns: the loading page, the error page or the calendar.
AppScreen ==
    IF isLoading THEN "loading"
    ELSE IF error # Null THEN "error"
    ELSE "calendar"

\* The field values submitted in this variant: the accepted submission and
\* one that the validation turns down.
FirestoreSubmitInputs ==
    {ValidInput, [ValidInput EXCEPT !.title = <<" ">>]}

InitFirestoreApp ==
    /\ currentWeekStart = today
    /\ currentView = "week"
    /\ shiftGroups = InitialShiftGroups
    /\ groupObjects = InitialGroupObjects
    /\ events = SubSeq(InitialEvents, 1, 5)
    /\ isFormOpen = FALSE
    /\ defaultResourceIdForForm = Undefined
    /\ groupNameForOpenShift = Undefined
    /\ errorMessage = ""
    /\ rendered = Render("week", today, InitialShiftGroups,
                         SubSeq(InitialEvents, 1, 5))
    /\ InitFirestoreState
    /\ NoLudoGame

\* What no handler of this variant writes.
Firestore_frame ==
    UNCHANGED <<currentWeekStart, currentView, groupObjects,
                defaultResourceIdForForm, groupNameForOpenShift, ludoVars>>

\* initializeFirebase and the first call of the auth listener.  It may throw
\* before the handle is stored (initializeApp, getFirestore) or after
\* (the sign-in).
initializeFirebase(outcome) ==
    /\ isLoading
    /\ db' = IF outcome = "throws-before-handle" THEN Null ELSE "firestore"
    /\ userId' = IF outcome = "signed-in" THEN "uid" ELSE Null
    /\ isLoading' = FALSE
    /\ error' = IF outcome \in {"throws-before-handle", "throws-at-sign-in"}
                 THEN "Failed to initialize Firebase" ELSE Null
    /\ UNCHANGED <<rendered, storeVars, isFormOpen, errorMessage, firestore,
                   pendingWrites>>
    /\ Firestore_frame

\* A later call of the auth listener, registered once the sign-in succeeded:
\* the user is signed out (the account is removed, the token revoked) or in
\* again.
onAuthStateChanged(user) ==
    /\ ~isLoading
    /\ db # Null
    /\ error # "Failed to initialize Firebase"
    /\ userId # user
    /\ userId' = user
    /\ UNCHANGED <<rendered, storeVars, isFormOpen, errorMessage, db,
                   isLoading, error, firestore, pendingWrites>>
    /\ Firestore_frame

\* The listener of the shiftGroups collection: setShiftGroups(groups).
onSnapshot_shiftGroups ==
    /\ StoreReady
    /\ shiftGroups # firestore.shiftGroups
    /\ shiftGroups' = firestore.shiftGroups
    /\ rendered' = Render(currentView, currentWeekStart, shiftGroups', events)
    /\ UNCHANGED <<events, isFormOpen, errorMessage, firestoreVars>>
    /\ Firestore_frame

\* The listener of the events collection: setEvents(eventsData).
onSnapshot_events ==
    /\ StoreReady
    /\ events # firestore.events
    /\ events' = firestore.events
    /\ rendered' = Render(currentView, currentWeekStart, shiftGroups, events')
    /\ UNCHANGED <<shiftGroups, isFormOpen, errorMessage, firestoreVars>>
    /\ Firestore_frame

\* The error callback of a listener.
onSnapshot_error(msg) ==
    /\ StoreReady
    /\ error' = msg
    /\ UNCHANGED <<rendered, storeVars, isFormOpen, errorMessage, db, userId,
                   isLoading, firestore, pendingWrites>>
    /\ Firestore_frame

\* "Add New Shift" or a click on a cell.
Firestore_openAddShiftForm ==
    /\ AppScreen = "calendar"
    /\ ~isFormOpen
    /\ isFormOpen' = TRUE
    /\ errorMessage' = ""
    /\ UNCHANGED <<rendered, storeVars, firestoreVars>>
    /\ Firestore_frame

\* The Cancel button.
Firestore_onClose ==
    /\ AppScreen = "calendar"
    /\ isFormOpen
    /\ isFormOpen' = FALSE
    /\ UNCHANGED <<rendered, storeVars, errorMessage, firestoreVars>>
    /\ Firestore_frame

\* ShiftForm.handleSubmit up to its await: the validation, then addEvent up
\* to its own await.  When the store is not ready addEvent returns at once
\* and handleSubmit goes on to onClose().
Firestore_handleSubmit(in) ==
    /\ AppScreen = "calendar"
    /\ isFormOpen
    /\ LET startDateTime == parseISO(in.startDate, in.startTime)
           endDateTime   == parseISO(in.endDate, in.endTime)
           msg == Validate(startDateTime, endDateTime, in.resourceId, in.title)
       IN  IF msg # ""
           THEN /\ errorMessage' = msg
                /\ UNCHANGED <<isFormOpen, error, pendingWrites>>
           ELSE IF ~StoreReady
           THEN /\ errorMessage' = ""
                /\ error' = MsgNotReady
                /\ isFormOpen' = FALSE
                /\ UNCHANGED pendingWrites
           ELSE /\ Cardinality(pendingWrites) < MaxPending
                /\ errorMessage' = ""
                /\ pendingWrites' = pendingWrites \cup
                      {[op |-> "addDoc", id |-> "", isExpanded |-> FALSE,
                        data |-> <<[resourceId |-> in.resourceId,
                                    title |-> trim(in.title),
                                    start |-> startDateTime,
                                    end |-> endDateTime]>>]}
                /\ UNCHANGED <<isFormOpen, error>>
    /\ UNCHANGED <<rendered, storeVars, db, userId, isLoading, firestore>>
    /\ Firestore_frame

\* deleteEvent(event.id) from the delete button of a rendered event, up to
\* its await.
Firestore_deleteEvent(eventId) ==
    /\ AppScreen = "calendar"
    /\ ~isFormOpen
    /\ \E i \in DOMAIN rendered.rows :
         \E k \in DOMAIN rendered.rows[i] :
           \E j \in DOMAIN rendered.rows[i][k] :
              rendered.rows[i][k][j].id = eventId
    /\ IF ~StoreReady
       THEN error' = MsgNotReady /\ UNCHANGED pendingWrites
       ELSE /\ Cardinality(pendingWrites) < MaxPending
            /\ pendingWrites' = pendingWrites \cup
                  {[op |-> "deleteDoc", id |-> eventId, isExpanded |-> FALSE,
                    data |-> <<>>]}
            /\ UNCHANGED error
    /\ UNCHANGED <<rendered, storeVars, isFormOpen, errorMessage, db, userId,
                   isLoading, firestore>>
    /\ Firestore_frame

\* toggleGroupExpansion(group.id) from a group header, up to its await.
Firestore_toggleGroupExpansion(groupId) ==
    /\ AppScreen = "calendar"
    /\ ~isFormOpen
    /\ IF ~StoreReady
       THEN error' = MsgNotReady /\ UNCHANGED pendingWrites
       ELSE /\ Cardinality(pendingWrites) < MaxPending
            /\ \E g \in DOMAIN shiftGroups :
                  /\ shiftGroups[g].id = groupId
                  /\ pendingWrites' = pendingWrites \cup
                        {[op |-> "updateDoc", id |-> groupId,
                          isExpanded |-> ~shiftGroups[g].isExpanded,
                          data |-> <<>>]}
            /\ UNCHANGED error
    /\ UNCHANGED <<rendered, storeVars, isFormOpen, errorMessage, db, userId,
                   isLoading, firestore>>
    /\ Firestore_frame

\* The collection after addDoc: the new document at its place in id order,
\* before the seeded ones and after the generated ids below its own.
WithAddedDoc(docs, data, docId) ==
    LET doc == [id |-> docId, resourceId |-> data.resourceId,
                title |-> data.title, start |-> data.start, end |-> data.end]
        before == Cardinality({k \in DOMAIN docs :
                     \E i, j \in 1..MaxDocs :
                        /\ docs[k].id = "AutoId" \o ToString(i)
                        /\ docId = "AutoId" \o ToString(j)
                        /\ i < j})
    IN  SubSeq(docs, 1, before) \o <<doc>> \o SubSeq(docs, before + 1, Len(docs))

\* The collections after the write w.
AfterWrite(w, docId) ==
    IF w.op = "addDoc"
    THEN [firestore EXCEPT !.events = WithAddedDoc(@, w.data[1], docId)]
    ELSE IF w.op = "deleteDoc"
    THEN [firestore EXCEPT !.events = WithoutEvent(@, w.id)]
    ELSE [firestore EXCEPT !.shiftGroups =
            [g \in DOMAIN @ |->
                IF @[g].id = w.id
                THEN [@[g] EXCEPT !.isExpanded = w.isExpanded]
                ELSE @[g]]]

\* An awaited write that fails with nothing but the console entry.
Firestore_writeRejects_LogsOnly(w) ==
    /\ w \in pendingWrites
    /\ pendingWrites' = pendingWrites \ {w}
    /\ isFormOpen' = IF w.op = "addDoc" THEN FALSE ELSE isFormOpen
    /\ UNCHANGED <<rendered, storeVars, errorMessage, db, userId, isLoading,
                   error, firestore>>
    /\ Firestore_frame

\* The awaited write resolves; after addEvent, handleSubmit goes on to
\* onClose().
Firestore_writeResolves(w, docId) ==
    /\ w \in pendingWrites
    /\ \A k \in DOMAIN firestore.events : firestore.events[k].id # docId
    /\ firestore' = AfterWrite(w, docId)
    /\ pendingWrites' = pendingWrites \ {w}
    /\ isFormOpen' = IF w.op = "addDoc" THEN FALSE ELSE isFormOpen
    /\ UNCHANGED <<rendered, storeVars, errorMessage, db, userId, isLoading,
                   error>>
    /\ Firestore_frame

\* The awaited write raises: the catch block sets error; after addEvent,
\* handleSubmit still goes on to onClose().
Firestore_writeRejects(w) ==
    /\ w \in pendingWrites
    /\ error' = IF w.op = "addDoc" THEN MsgAddFailed
                 ELSE IF w.op = "deleteDoc" THEN "Failed to delete event"
                 ELSE "Failed to update group"
    /\ pendingWrites' = pendingWrites \ {w}
    /\ isFormOpen' = IF w.op = "addDoc" THEN FALSE ELSE isFormOpen
    /\ UNCHANGED <<rendered, storeVars, errorMessage, db, userId, isLoading,
                   firestore>>
    /\ Firestore_frame

FirestoreNext ==
    \/ \E outcome \in {"signed-in", "throws-before-handle",
                        "throws-at-sign-in"} : initializeFirebase(outcome)
    \/ \E user \in {"uid", Null} : onAuthStateChanged(user)
    \/ onSnapshot_shiftGroups
    \/ onSnapshot_events
    \/ \E msg \in {"Failed to fetch events"} : onSnapshot_error(msg)
    \/ Firestore_openAddShiftForm
    \/ Firestore_onClose
    \/ \E in \in FirestoreSubmitInputs : Firestore_handleSubmit(in)
    \/ \E eventId \in {"evt-1"} \cup DocIds : Firestore_deleteEvent(eventId)
    \/ \E g \in ClickedGroups :
            Firestore_toggleGroupExpansion(shiftGroups[g].id)
    \/ \E w \in pendingWrites, docId \in DocIds :
            Firestore_writeResolves(w, docId)
    \/ \E w \in pendingWrites : Firestore_writeRejects(w)

SpecFirestore == InitFirestoreApp /\ [][FirestoreNext]_vars

----------------------------------------------------------------------------
(* The Ludo game (App.tsx): rolls, moves and timers.  State updates made  *)
(* in one callback are committed together; message, selectedPiece, the    *)
(* sounds and the copy in localStorage are left out.                      *)

\* The faces Math.floor(Math.random() * 6) + 1 gives.
DiceFaces == 1..6

\* Array.prototype.findIndex on a list of positions: 0-based, -1 when absent.
findIndex(coords, pos) ==
    IF \E k \in DOMAIN coords : coords[k] = pos
    THEN (CHOOSE k \in DOMAIN coords :
            /\ coords[k] = pos
            /\ \A j \in 1..(k - 1) : coords[j] # pos) - 1
    ELSE -1

\* homePathEntryIndex of movePiece and determineMovablePieces.
homePathEntryIndex(color) == findIndex(MAIN_PATH_COORDS, HOME_ENTRY_POINTS[color])

\* The piece at home: pathIndex -2.
HomePiece == [pathIndex |-> -2, inHomePath |-> FALSE, isHome |-> TRUE]

\* The body of movePiece up to its writes: the piece after the move, and ok
\* FALSE where movePiece calls nextTurn() and returns without moving.
movedPiece(piece, roll, color) ==
    IF piece.pathIndex = -1
    THEN IF roll = 6
         THEN [ok |-> TRUE,
               piece |-> [piece EXCEPT !.pathIndex =
                             findIndex(MAIN_PATH_COORDS, ENTRY_POINTS[color])]]
         ELSE [ok |-> FALSE, piece |-> piece]
    ELSE IF ~piece.inHomePath
    THEN LET potentialNewPathIndex == piece.pathIndex + roll
             stepsIntoHomePath == potentialNewPathIndex - homePathEntryIndex(color)
             length == Len(HOME_PATH_COORDS[color])
         IN  IF /\ piece.pathIndex < homePathEntryIndex(color)
                /\ potentialNewPathIndex >= homePathEntryIndex(color)
             THEN IF stepsIntoHomePath < length
                  THEN [ok |-> TRUE,
                        piece |-> [piece EXCEPT !.pathIndex = stepsIntoHomePath,
                                                !.inHomePath = TRUE]]
                  ELSE IF stepsIntoHomePath = length
                  THEN [ok |-> TRUE, piece |-> HomePiece]
                  ELSE [ok |-> FALSE, piece |-> piece]
             ELSE IF potentialNewPathIndex < Len(MAIN_PATH_COORDS)
             THEN [ok |-> TRUE,
                   piece |-> [piece EXCEPT !.pathIndex = potentialNewPathIndex]]
             ELSE [ok |-> FALSE, piece |-> piece]
    ELSE LET potentialNewHomePathIndex == piece.pathIndex + roll
             length == Len(HOME_PATH_COORDS[color])
         IN  IF potentialNewHomePathIndex < length
             THEN [ok |-> TRUE,
                   piece |-> [piece EXCEPT !.pathIndex = potentialNewHomePathIndex]]
             ELSE IF potentialNewHomePathIndex = length
             THEN [ok |-> TRUE, piece |-> HomePiece]
             ELSE [ok |-> FALSE, piece |-> piece]

\* canMove of determineMovablePieces.
canMove(piece, roll, color) ==
    IF piece.pathIndex = -1 THEN roll = 6
    ELSE IF ~piece.inHomePath
    THEN LET newPathIndex == piece.pathIndex + roll
         IN  \/ newPathIndex < Len(MAIN_PATH_COORDS)
             \/ /\ piece.pathIndex < homePathEntryIndex(color)
                /\ newPathIndex >= homePathEntryIndex(color)
                /\ newPathIndex - homePathEntryIndex(color)
                      < Len(HOME_PATH_COORDS[color])
    ELSE piece.pathIndex + roll <= Len(HOME_PATH_COORDS[color])

\* possibleMoves of determineMovablePieces, for the pieces of a list of
\* piece numbers in order; a piece id is <<colour, number>>.
RECURSIVE possibleMoves(_, _, _, _)
possibleMoves(pieces, roll, color, i) ==
    IF i > 3 THEN <<>>
    ELSE (IF canMove(pieces[i], roll, color) THEN << <<color, i>> >> ELSE <<>>)
         \o possibleMoves(pieces, roll, color, i + 1)

\* What a callback created during a render sees of the game.
Closure ==
    [currentPlayerIndex |-> currentPlayerIndex,
     piecesPositions |-> piecesPositions,
     players |-> players]

\* nextTurn(), called for the roll numbered r, together with what movePiece
\* or the timer leaves of the other Ludo state.
nextTurn(r) ==
    /\ currentPlayerIndex' = (currentPlayerIndex + 1) % Len(PLAYER_COLORS)
    /\ playerChanges' = [playerChanges EXCEPT ![r] = @ + 1]

\* movePiece(pieceId, roll) of the render `seen`, followed by the
\* setMovablePieces([]) of both of its callers.  checkWinCondition reads the
\* pieces of that render, from before the move.
movePiece(seen, pieceId, roll, r) ==
    LET color == PLAYER_COLORS[seen.currentPlayerIndex + 1]
        currentPieces == seen.piecesPositions[color]
        result == movedPiece(currentPieces[pieceId[2]], roll, color)
        allPiecesInHome == \A i \in 0..3 : currentPieces[i].isHome
    IN  /\ movablePieces' = <<>>
        /\ IF pieceId[1] # color
           THEN UNCHANGED <<piecesPositions, players, gameStarted,
                            currentPlayerIndex, playerChanges, rollResolved>>
           ELSE IF ~result.ok
           THEN /\ nextTurn(r)
                /\ rollResolved' = TRUE
                /\ UNCHANGED <<piecesPositions, players, gameStarted>>
           ELSE /\ piecesPositions' =
                     [piecesPositions EXCEPT ![color] =
                        [currentPieces EXCEPT ![pieceId[2]] = result.piece]]
                /\ players' = IF allPiecesInHome
                              THEN [seen.players EXCEPT ![color] = TRUE]
                              ELSE players
                /\ gameStarted' = IF allPiecesInHome THEN FALSE ELSE gameStarted
                /\ rollResolved' = TRUE
                /\ IF result.piece.isHome \/ roll = 6
                   THEN UNCHANGED <<currentPlayerIndex, playerChanges>>
                   ELSE nextTurn(r)

\* The Dice button: handleRollDice up to its first interval tick.  The roll
\* is drawn here, and the interval keeps the determineMovablePieces of this
\* render.
handleRollDice(roll) ==
    /\ ~isRolling
    /\ gameStarted
    /\ rollCount < MaxRolls
    /\ isRolling' = TRUE
    /\ rollCount' = rollCount + 1
    /\ rollInterval' = <<[roll |-> roll, r |-> rollCount + 1, seen |-> Closure]>>
    /\ UNCHANGED <<players, piecesPositions, currentPlayerIndex, diceValue,
                   gameStarted, movablePieces, timers, settledRoll,
                   playerChanges, rollResolved>>
    /\ UNCHANGED calendarVars

\* A tick of the animation: setDiceValue of a random face.
rollTick(face) ==
    /\ rollInterval # <<>>
    /\ diceValue # face
    /\ diceValue' = face
    /\ UNCHANGED <<players, piecesPositions, currentPlayerIndex, gameStarted,
                   isRolling, movablePieces, rollInterval, timers, rollCount,
                   settledRoll, playerChanges, rollResolved>>
    /\ UNCHANGED calendarVars

\* The last tick: the roll is shown, determineMovablePieces(roll) runs on the
\* state the interval has kept, and the effects of the next render run: with
\* no movable piece the 1.5 s timer of nextTurn is set, with exactly one the
\* 0.5 s timer of the automatic move, which keeps the movePiece of that
\* render.
rollSettles ==
    /\ rollInterval # <<>>
    /\ LET roll == rollInterval[1].roll
           seen == rollInterval[1].seen
           color == PLAYER_COLORS[seen.currentPlayerIndex + 1]
           moves == possibleMoves(seen.piecesPositions[color], roll, color, 0)
       IN  /\ diceValue' = roll
           /\ movablePieces' = moves
           /\ timers' = timers \cup
                (IF Len(moves) = 0
                 THEN {[kind |-> "nextTurn", r |-> rollInterval[1].r,
                        seen |-> seen, pieceId |-> <<>>, roll |-> roll]}
                 ELSE IF Len(moves) = 1 /\ gameStarted
                 THEN {[kind |-> "movePiece", r |-> rollInterval[1].r,
                        seen |-> Closure, pieceId |-> moves[1], roll |-> roll]}
                 ELSE {})
    /\ isRolling' = FALSE
    /\ rollInterval' = <<>>
    /\ settledRoll' = rollInterval[1].r
    /\ rollResolved' = FALSE
    /\ UNCHANGED <<players, piecesPositions, currentPlayerIndex, gameStarted,
                   rollCount, playerChanges>>
    /\ UNCHANGED calendarVars

\* A click on a piece that movablePieces holds; a click on another piece sets
\* the message only.
handlePieceClick(pieceId) ==
    /\ gameStarted
    /\ \E k \in DOMAIN movablePieces : movablePieces[k] = pieceId
    /\ movePiece(Closure, pieceId, diceValue, settledRoll)
    /\ UNCHANGED <<diceValue, isRolling, rollInterval, timers, rollCount,
                   settledRoll>>
    /\ UNCHANGED calendarVars

\* The 1.5 s timer of determineMovablePieces runs: nextTurn().
noMoveTimer(t) ==
    /\ t \in timers
    /\ t.kind = "nextTurn"
    /\ timers' = timers \ {t}
    /\ nextTurn(t.r)
    /\ movablePieces' = <<>>
    /\ rollResolved' = TRUE
    /\ UNCHANGED <<players, piecesPositions, diceValue, gameStarted, isRolling,
                   rollInterval, rollCount, settledRoll>>
    /\ UNCHANGED calendarVars

\* The 0.5 s timer of the effect runs: movePiece(pieceIdToMove, diceValue) of
\* the render that set it.
autoMoveTimer(t) ==
    /\ t \in timers
    /\ t.kind = "movePiece"
    /\ timers' = timers \ {t}
    /\ movePiece(t.seen, t.pieceId, t.roll, t.r)
    /\ UNCHANGED <<diceValue, isRolling, rollInterval, rollCount, settledRoll>>
    /\ UNCHANGED calendarVars

LudoNext ==
    \/ \E roll \in DiceFaces : handleRollDice(roll)
    \/ \E face \in DiceFaces : rollTick(face)
    \/ rollSettles
    \/ \E c \in {"red", "green", "yellow", "blue"}, i \in 0..3 :
            handlePieceClick(<<c, i>>)
    \/ \E t \in timers : noMoveTimer(t)
    \/ \E t \in timers : autoMoveTimer(t)

\* The page with the game mounted and a fresh game started.
InitLudo ==
    /\ currentWeekStart = today
    /\ currentView = "week"
    /\ shiftGroups = InitialShiftGroups
    /\ groupObjects = InitialGroupObjects
    /\ events = InitialEvents
    /\ isFormOpen = FALSE
    /\ defaultResourceIdForForm = Undefined
    /\ groupNameForOpenShift = Undefined
    /\ errorMessage = ""
    /\ rendered = Render("week", today, InitialShiftGroups, InitialEvents)
    /\ NoFirestoreApp
    /\ InitLudoState

SpecLudo == InitLudo /\ [][LudoNext]_vars

----------------------------------------------------------------------------
(* Properties of navigation *)

\* C24 as stated (refuted, specification SpecView): in every view mode and at
\* every anchor date, goToNext followed by goToPrevious, and goToPrevious
\* followed by goToNext, gives back the anchor date.
C24_Original ==
    /\ NextAnchor(currentView, currentWeekStart) \in AnchorDates
          => PreviousAnchor(currentView,
                            NextAnchor(currentView, currentWeekStart))
                = currentWeekStart
    /\ PreviousAnchor(currentView, currentWeekStart) \in AnchorDates
          => NextAnchor(currentView,
                        PreviousAnchor(currentView, currentWeekStart))
                = currentWeekStart

\* C25 as stated (refuted, specification SpecAppComponent): in Day view
\* goToNext moves the anchor forward by exactly one calendar day and
\* goToPrevious moves it back by exactly one calendar day.
C25_Original ==
    [][currentView = "day" =>
         /\ AppComponent_goToNext =>
               currentWeekStart' = currentWeekStart + MinutesPerDay
         /\ AppComponent_goToPrevious =>
               currentWeekStart' = currentWeekStart - MinutesPerDay]_vars

\* In the variants with a Day branch of its own (mainApp.tsx, part_011
\* 1001-1035) the Day step is one calendar day (specification SpecView).
C25_MainAppDayStepsOneDay ==
    [][currentView = "day" =>
         /\ goToNext => currentWeekStart' = currentWeekStart + MinutesPerDay
         /\ goToPrevious =>
               currentWeekStart' = currentWeekStart - MinutesPerDay]_vars

----------------------------------------------------------------------------
(* Properties of the group toggle and of deletion (specification SpecStore) *)

\* How many cells of the resource rows of the last render show the event.
ShownInResourceRows(eventId) ==
    Cardinality({<<i, k, j>> \in
        UNION { UNION { { <<i2, k2, j2>> : j2 \in DOMAIN rendered.rows[i2][k2] }
                        : k2 \in DOMAIN rendered.rows[i2] }
                : i2 \in DOMAIN rendered.rows } :
        rendered.rows[i][k][j].id = eventId})

\* Every handler ends with the render of the state it leaves.
RenderedIsCurrent ==
    rendered = Render(currentView, currentWeekStart, shiftGroups, events)

\* How many cells of the Open Shifts rows of the last render show the event.
ShownInOpenShiftsRows(eventId) ==
    LET openShiftRows ==
            OpenShiftRows(currentView, currentWeekStart, shiftGroups, events)
    IN  Cardinality({<<g, k, j>> \in
            UNION { UNION { { <<g2, k2, j2>> :
                                j2 \in DOMAIN openShiftRows[g2][k2] }
                            : k2 \in DOMAIN openShiftRows[g2] }
                    : g2 \in DOMAIN openShiftRows } :
            openShiftRows[g][k][j].id = eventId})

\* C23 as stated (refuted): with all groups expanded, every stored event
\* whose start day is among the displayed day columns is rendered in exactly
\* one row, the row of its resource or the Open Shifts row of one group.
C23_Original ==
    (/\ currentView \in RowViews
     /\ \A g \in DOMAIN shiftGroups : shiftGroups[g].isExpanded) =>
        \A n \in DOMAIN events :
            (\E d \in DOMAIN RenderedDays :
                    isSameDay(events[n].start, RenderedDays[d])) =>
                ShownInResourceRows(events[n].id)
                    + ShownInOpenShiftsRows(events[n].id) = 1

\* Every stored event that does not belong to the "Open Shifts" resource is
\* rendered in exactly one row, that of its resource.
C23_ResourceEventsShownOnce ==
    (/\ currentView \in RowViews
     /\ \A g \in DOMAIN shiftGroups : shiftGroups[g].isExpanded) =>
        \A n \in DOMAIN events :
            (/\ events[n].resourceId # openShiftResourceId
             /\ \E d \in DOMAIN RenderedDays :
                    isSameDay(events[n].start, RenderedDays[d])) =>
                /\ ShownInResourceRows(events[n].id) = 1
                /\ ShownInOpenShiftsRows(events[n].id) = 0

\* The identities of the objects of the current shiftGroups array, which the
\* last render handed to MainCalendar.
HandedGroupRefs == {groupObjects.refs[g] : g \in DOMAIN shiftGroups}

\* C21: toggleGroupExpansion(id) replaces the target group by a new record
\* whose isExpanded flag is negated; every other group keeps its record, the
\* events are unchanged, and no record of the array handed to the consumers
\* is written in place.
C21_ToggleReplacesTargetOnly ==
    /\ [](\A g \in DOMAIN shiftGroups :
            shiftGroups[g] = groupObjects.objs[groupObjects.refs[g]])
    /\ [][\A groupId \in {shiftGroups[g].id : g \in DOMAIN shiftGroups} :
            toggleGroupExpansion(groupId) =>
              /\ DOMAIN shiftGroups' = DOMAIN shiftGroups
              /\ \A g \in DOMAIN shiftGroups :
                    IF shiftGroups[g].id = groupId
                    THEN /\ shiftGroups'[g].isExpanded = ~shiftGroups[g].isExpanded
                         /\ shiftGroups'[g].id = shiftGroups[g].id
                         /\ shiftGroups'[g].name = shiftGroups[g].name
                         /\ groupObjects'.refs[g] \notin HandedGroupRefs
                    ELSE /\ shiftGroups'[g] = shiftGroups[g]
                         /\ groupObjects'.refs[g] = groupObjects.refs[g]
              /\ events' = events
              /\ \A r \in HandedGroupRefs :
                    /\ r \in DOMAIN groupObjects'.objs
                    /\ groupObjects'.objs[r] = groupObjects.objs[r]]_vars

\* C21 witness: the Sales group was collapsed; its new record is collapsed,
\* the record it replaced still reads expanded, and the other groups and the
\* events are as seeded.
C21_Witness ==
    /\ ~shiftGroups[2].isExpanded
    /\ groupObjects.refs[2] # 2
    /\ groupObjects.objs[2].isExpanded
    /\ shiftGroups[1] = InitialShiftGroups[1]
    /\ shiftGroups[3] = InitialShiftGroups[3]
    /\ events = InitialEvents

\* The positions of evts whose event does not carry eventId.
KeptPositions(evts, eventId) == {k \in DOMAIN evts : evts[k].id # eventId}

\* after is evts with exactly the events carrying eventId taken out: the j-th
\* event of after is the event at the j-th kept position of evts.
IsRemovalOf(after, evts, eventId) ==
    /\ Len(after) = Cardinality(KeptPositions(evts, eventId))
    /\ \A k \in KeptPositions(evts, eventId) :
          after[Cardinality({m \in KeptPositions(evts, eventId) : m <= k})]
              = evts[k]

\* C27: deleteEvent(id) removes exactly the events whose id is id and keeps
\* every other event in its relative order; on a store holding no event with
\* that id the filter changes nothing, so applying it a second time gives the
\* result of applying it once.
C27_DeleteRemovesExactlyId ==
    /\ [](\A eventId \in DeleteInputs :
            /\ IsRemovalOf(WithoutEvent(events, eventId), events, eventId)
            /\ KeptPositions(events, eventId) = DOMAIN events
                  => WithoutEvent(events, eventId) = events
            /\ WithoutEvent(WithoutEvent(events, eventId), eventId)
                  = WithoutEvent(events, eventId))
    /\ [][\A eventId \in DeleteInputs :
            deleteEvent(eventId) =>
              /\ IsRemovalOf(events', events, eventId)
              /\ UNCHANGED shiftGroups]_vars

\* C27 witness: evt-1, the first seeded event, was deleted and the four
\* seeded events after it are left in their order.
C27_Witness ==
    /\ Len(events) = Len(InitialEvents) - 1
    /\ \A k \in DOMAIN events : events[k] = InitialEvents[k + 1]

----------------------------------------------------------------------------
(* Properties of the Firestore App (specification SpecFirestore) *)

\* A create, delete or toggle that finds the store not ready.
StoreOperationNotReady ==
    /\ ~StoreReady
    /\ \/ \E in \in FirestoreSubmitInputs :
            Firestore_handleSubmit(in) /\ errorMessage' = ""
       \/ \E eventId \in {"evt-1"} \cup DocIds : Firestore_deleteEvent(eventId)
       \/ \E g \in ClickedGroups :
            Firestore_toggleGroupExpansion(shiftGroups[g].id)

\* C22: a create, delete or toggle that fails, because its write raises or
\* because the store is not ready, leaves the App with an error set, so that
\* it shows its error page; an error once set stays set.
C22_StoreFailureShowsError ==
    /\ [][((\E w \in pendingWrites : Firestore_writeRejects(w))
             \/ StoreOperationNotReady)
           => (error' # Null /\ AppScreen' = "error")]_vars
    /\ [][error # Null => error' # Null]_vars

\* The write of an add was rejected and the error page is shown.
C22_Witness ==
    /\ AppScreen = "error"
    /\ error = MsgAddFailed
    /\ pendingWrites = {}

\* C26: the form closes after a submit only when the event was written: any
\* step that closes the form, other than Cancel, adds a document to the
\* events collection.
C26_Original ==
    [][(isFormOpen /\ ~isFormOpen' /\ ~Firestore_onClose)
       => Len(firestore'.events) = Len(firestore.events) + 1]_vars

\* What does hold: the form closes only by Cancel or when addEvent has
\* returned, whatever its outcome.
C26_FormClosesWhenAddEventReturns ==
    [][(isFormOpen /\ ~isFormOpen')
       => \/ Firestore_onClose
          \/ error' = MsgNotReady
          \/ \E w \in pendingWrites : w.op = "addDoc" /\ w \notin pendingWrites']_vars

----------------------------------------------------------------------------
(* Properties of the Ludo game (specification SpecLudo) *)

\* C28: a completed roll changes the current player at most once, whatever
\* the order of the timers, the clicks and the further rolls: nextTurn runs
\* at most once for each roll.
C28_Original == \A r \in 1..MaxRolls : playerChanges[r] <= 1

\* What does hold: a roll passes the turn at most twice, once by a click or
\* by the timer of a roll without move and once by the timer of the
\* automatic move.
C28_AtMostTwoChangesPerRoll == \A r \in 1..MaxRolls : playerChanges[r] <= 2

\* C29: once a roll has settled, the next roll is accepted only after the
\* settled one is resolved, by a move or by the turn passing.
C29_Original == [][(~isRolling /\ isRolling') => rollResolved]_vars

\* What does hold: no roll is accepted while the animation of another runs.
C29_NoRollWhileRolling ==
    [][isRolling => (rollCount' = rollCount /\ rollInterval' \in {rollInterval, <<>>})]_vars

\* The piece states a piece of the colour can get to by moves of movePiece.
RECURSIVE ReachablePieces(_, _, _)
ReachablePieces(seen, frontier, color) ==
    IF frontier = {} THEN seen
    ELSE LET next == {movedPiece(p, roll, color).piece :
                         p \in frontier, roll \in DiceFaces} \ seen
         IN  ReachablePieces(seen \cup next, next, color)

\* The colours whose pieces can be brought from the start area to the home.
ColoursThatCanReachHome ==
    {c \in {"red", "green", "yellow", "blue"} :
        \E q \in ReachablePieces({StartPiece}, {StartPiece}, c) : q.isHome}

\* C30: a win is reachable for every player: each piece that stands in the
\* start area can be brought home by some sequence of rolls.
C30_Original ==
    \A c \in {"red", "green", "yellow", "blue"} : \A i \in 0..3 :
        piecesPositions[c][i] = StartPiece => c \in ColoursThatCanReachHome

\* What does hold: no piece enters a home path or comes home, no player wins
\* and the game never ends.
C30_NoPieceComesHome ==
    /\ gameStarted
    /\ ColoursThatCanReachHome = {}
    /\ \A c \in {"red", "green", "yellow", "blue"} :
          /\ ~players[c]
          /\ \A i \in 0..3 :
                /\ ~piecesPositions[c][i].isHome
                /\ ~piecesPositions[c][i].inHomePath
                /\ piecesPositions[c][i].pathIndex < Len(MAIN_PATH_COORDS)

============================================================================
